---- MODULE Spec2Model ----
(***************************************************************************)
(* The transaction lifecycle controller of the wallet                      *)
(* (app/scripts/controllers/transactions/index.js): intake, gas            *)
(* defaulting, approval (nonce lock, signer, broadcast), cancel/speed-up   *)
(* replacements, confirmation with nonce-duplicate resolution, rejection,  *)
(* failure, drop and the boot / network-change clean-up.                   *)
(*                                                                         *)
(* The controller runs on one event loop.  Every action below is one run   *)
(* to completion of controller code between two suspension points (await). *)
(* Transaction records are shared mutable objects: getTransaction and      *)
(* getTransactions hand out the stored object, so an assignment to a field *)
(* of a txMeta held by a handler is an assignment to the stored record.    *)
(*                                                                         *)
(* Spec is the record lifecycle: approvals interleave at every suspension  *)
(* of approveTransaction with rejections, replacements, confirmations,     *)
(* tracker events and clean-ups; gas defaulting runs within the intake     *)
(* step.  SpecGas takes one record through the fee computations            *)
(* (addTxGasDefaults, generateNewGasParams) over all fee inputs.           *)
(* SpecIntake takes addUnapprovedTransaction step by step from a persisted *)
(* store, SpecSubmit adds the promise of newUnapprovedTransaction,         *)
(* SpecLock is the nonce lock alone, SpecBlocks the block tracker with the *)
(* passes of the pending-transaction tracker.  The listeners of the        *)
(* store's status events run within the step that changes the status.      *)
(***************************************************************************)
EXTENDS Integers, Sequences, FiniteSets, TLC

\* ------------------------------------------------------------------ bounds
MaxTx == 2          \* records ever created
MaxCalls == 2       \* approveTransaction invocations that may be outstanding
MaxNonce == 1       \* cap of the network-reported transaction count
MaxIntake == 1      \* addUnapprovedTransaction invocations that may be outstanding
MaxJobs == 1        \* clean-up defaulting promises outstanding on one record
MaxClients == 2     \* other callers of getNonceLock
MaxHandles == 3     \* nonce locks handed out to those callers
MaxReleases == 2    \* calls of one release function
MaxPasses == 3      \* tracker passes requested and not yet ended
MaxBlocks == 2      \* blocks the block tracker announces
MaxLogged == 2      \* errors written to the log

Addresses == {"A", "B"}

\* JS `undefined` for a numeric field of a record
Undefined == -1

VARIABLES
    txs,                \* txStateManager store: record id -> txMeta (ids are 1..Len)
    inProcessOfSigning, \* controller.inProcessOfSigning
    calls,              \* outstanding approveTransaction invocations
    lockHolder,         \* nonceTracker: address -> call holding the mutex (0: free)
    lockQueue,          \* nonceTracker: address -> calls waiting for the mutex
    netNonce,           \* chain: address -> eth_getTransactionCount
    returned,           \* what the latest step handed back to the caller of the call it ended
    gasDraft, gasTx, gasEnv, gasPc, gasNew, gasCustom,  \* single-record fee pipeline
    intake,             \* outstanding addUnapprovedTransaction invocations
    events,             \* ids carried by the 'newUnapprovedTx' events emitted so far
    jobs,               \* record id -> addTxGasDefaults promises _onBootCleanUp awaits
    booted,             \* the constructor has run
    clients,            \* callers of nonceTracker.getNonceLock outside the controller
    handles,            \* release functions handed out: address and times called
    listenersAreActive, \* _setupBlockTrackerListener: the closure's flag
    latestListeners,    \* blockTracker: times latestBlockHandler is registered on 'latest'
    passes,             \* _onLatestBlock / _updatePendingTxsAfterFirstBlock invocations
    latestBlock,        \* blockTracker: number of the latest block (0: none yet)
    logged              \* log.error calls of _onLatestBlock so far

lifeVars == <<txs, inProcessOfSigning, calls, lockHolder, lockQueue, netNonce,
              returned>>
approvalVars == <<inProcessOfSigning, calls, lockHolder, lockQueue, netNonce>>
gasVars == <<gasDraft, gasTx, gasEnv, gasPc, gasNew, gasCustom>>
intakeVars == <<intake, events, jobs, booted>>
lockVars == <<clients, handles>>
passVars == <<passes, latestBlock, logged>>
trackerVars == <<listenersAreActive, latestListeners, passes, latestBlock, logged>>
vars == <<txs, inProcessOfSigning, calls, lockHolder, lockQueue, netNonce,
          returned, gasDraft, gasTx, gasEnv, gasPc, gasNew, gasCustom,
          intake, events, jobs, booted, clients, handles,
          listenersAreActive, latestListeners, passes, latestBlock, logged>>

Max(a, b) == IF a >= b THEN a ELSE b

\* ------------------------------------------------------- hex quantities
\* addHexPrefix(n.toString(16)) for the nonces the model reaches
HexDigits == <<"0x0", "0x1", "0x2", "0x3", "0x4", "0x5", "0x6", "0x7",
               "0x8", "0x9", "0xa", "0xb", "0xc", "0xd", "0xe", "0xf">>
NoNonce == "undefined"
\* Number.prototype.toString(16) + addHexPrefix
numberToHex(n) == HexDigits[n + 1]
\* parse of a hex nonce, as the nonce tracker does with the stored txParams.nonce
hexToNumber(s) == CHOOSE n \in 0..15 : HexDigits[n + 1] = s

\* ---------------------------------------------------------------- records
Statuses == {"unapproved", "approved", "signed", "submitted",
             "confirmed", "failed", "dropped", "rejected"}
Terminal == {"confirmed", "failed", "dropped", "rejected"}

NoGasParams == [has |-> FALSE, gasPrice |-> Undefined, maxFeePerGas |-> Undefined,
                maxPriorityFeePerGas |-> Undefined]

\* txStateManager.generateTxMeta: a fresh record around the given txParams
generateTxMeta(from, to, value, data, gas, gasPrice, maxFee, maxPrio, status, type) ==
    [status |-> status, type |-> type, origin |-> "dapp",
     from |-> from, to |-> to, value |-> value, data |-> data,
     nonce |-> NoNonce, gas |-> gas, gasPrice |-> gasPrice,
     maxFeePerGas |-> maxFee, maxPriorityFeePerGas |-> maxPrio,
     userFeeLevel |-> "", loadingDefaults |-> TRUE,
     customNonceValue |-> Undefined, previousGasParams |-> NoGasParams,
     originalTxId |-> 0, hash |-> 0, rawTx |-> FALSE, err |-> "",
     replacedBy |-> 0, txReceipt |-> FALSE,
     \* observations, not fields of the txMeta: the nonce the signer signed for this
     \* record and the nonce of the payload handed to sendRawTransaction
     signedNonce |-> NoNonce, sentNonce |-> NoNonce]

\* ------------------------------------------------------------ gas defaults
\* shared/constants/gas GAS_LIMITS.SIMPLE ('0x5208')
GAS_LIMITS_SIMPLE == 21000

\* decGWEIToHexWEI: a decimal GWEI amount as a WEI quantity
decGWEIToHexWEI(g) == g * 1000000000

\* isEIP1559Transaction: both fee-market fields are present
isEIP1559Transaction(tx) ==
    tx.maxFeePerGas # Undefined /\ tx.maxPriorityFeePerGas # Undefined

NoFees == [gasPrice |-> Undefined, maxFeePerGas |-> Undefined,
           maxPriorityFeePerGas |-> Undefined]

\* the fall-through of _getDefaultGasFees: eth_gasPrice asked from the node
NodeGasPrice(env) == [NoFees EXCEPT !.gasPrice = env.nodeGasPrice]

_getDefaultGasFees(tx, env) ==
    IF \/ (~env.eip1559 /\ tx.gasPrice # Undefined)
       \/ (env.eip1559 /\ tx.maxFeePerGas # Undefined
                       /\ tx.maxPriorityFeePerGas # Undefined)
    THEN NoFees
    ELSE IF env.estimateType = "throws" THEN NodeGasPrice(env)
    ELSE IF env.eip1559 /\ env.estimateType = "fee-market"
    THEN IF env.suggestedMaxPriorityFeePerGas # Undefined
            /\ env.suggestedMaxFeePerGas # Undefined
         THEN [NoFees EXCEPT
                 !.maxFeePerGas = decGWEIToHexWEI(env.suggestedMaxFeePerGas),
                 !.maxPriorityFeePerGas =
                     decGWEIToHexWEI(env.suggestedMaxPriorityFeePerGas)]
         ELSE NodeGasPrice(env)
    ELSE IF env.estimateType = "legacy"
    THEN [NoFees EXCEPT !.gasPrice = decGWEIToHexWEI(env.medium)]
    ELSE IF env.estimateType = "eth_gasPrice"
    THEN [NoFees EXCEPT !.gasPrice = decGWEIToHexWEI(env.estGasPrice)]
    ELSE NodeGasPrice(env)

\* a _getDefaultGasLimit that never throws
GasLimitThrows_Never(tx, env) == FALSE

\* _getDefaultGasLimit throws: data sent to an address without contract code
GasLimitThrows(tx, env) ==
    /\ tx.gas = Undefined
    /\ tx.to # "" /\ tx.type = "sentEther" /\ env.chainType # "custom"
    /\ tx.data

\* a _getDefaultGasLimit that always asks for the buffered estimate
_getDefaultGasLimit_Estimated(tx, env) ==
    IF tx.gas # Undefined THEN Undefined ELSE env.bufferedGasLimit

_getDefaultGasLimit(tx, env) ==
    IF tx.gas # Undefined THEN Undefined
    ELSE IF tx.to # "" /\ tx.type = "sentEther" /\ env.chainType # "custom"
    THEN GAS_LIMITS_SIMPLE
    ELSE env.bufferedGasLimit

\* a fee-market branch that writes the estimates over the caller's values
FillFeeMarket_Overwrite(tx, d) ==
    [tx EXCEPT !.maxFeePerGas = IF d.maxFeePerGas # Undefined THEN d.maxFeePerGas ELSE @,
               !.maxPriorityFeePerGas = IF d.maxPriorityFeePerGas # Undefined
                                        THEN d.maxPriorityFeePerGas ELSE @,
               !.userFeeLevel = "medium"]

\* a fee-market branch without the fall-back of the priority fee to maxFeePerGas
FillFeeMarket_NoSibling(tx, d) ==
    LET t1 == IF d.maxFeePerGas # Undefined /\ tx.maxFeePerGas = Undefined
              THEN [tx EXCEPT !.maxFeePerGas = d.maxFeePerGas] ELSE tx
        t2 == IF d.maxPriorityFeePerGas # Undefined /\ t1.maxPriorityFeePerGas = Undefined
              THEN [t1 EXCEPT !.maxPriorityFeePerGas = d.maxPriorityFeePerGas] ELSE t1
    IN IF d.gasPrice # Undefined /\ t2.maxFeePerGas = Undefined
       THEN [t2 EXCEPT !.maxFeePerGas = d.gasPrice] ELSE t2

\* the fee-market branch of addTxGasDefaults when the caller did not give gasPrice alone
FillFeeMarket(tx, d) ==
    LET level == IF \/ (d.maxFeePerGas # Undefined /\ d.maxPriorityFeePerGas # Undefined
                          /\ tx.maxFeePerGas = Undefined
                          /\ tx.maxPriorityFeePerGas = Undefined)
                    \/ tx.origin = "metamask"
                 THEN "medium" ELSE "custom"
        t1 == IF d.maxFeePerGas # Undefined /\ tx.maxFeePerGas = Undefined
              THEN [tx EXCEPT !.maxFeePerGas = d.maxFeePerGas] ELSE tx
        t2 == IF d.maxPriorityFeePerGas # Undefined /\ t1.maxPriorityFeePerGas = Undefined
              THEN [t1 EXCEPT !.maxPriorityFeePerGas = d.maxPriorityFeePerGas] ELSE t1
        t3 == IF d.gasPrice # Undefined /\ t2.maxFeePerGas = Undefined
              THEN [t2 EXCEPT !.maxFeePerGas = d.gasPrice] ELSE t2
        t4 == IF t3.maxFeePerGas # Undefined /\ t3.maxPriorityFeePerGas = Undefined
              THEN [t3 EXCEPT !.maxPriorityFeePerGas = t3.maxFeePerGas] ELSE t3
    IN [t4 EXCEPT !.userFeeLevel = level]

\* ShapeFees without the deletions: the fields of the other shape stay on the record
ShapeFees_KeepAll(tx, d, eip1559) ==
    IF eip1559 THEN FillFeeMarket(tx, d) ELSE tx

\* ShapeFees without the copy of a lone gasPrice into the fee-market fields
ShapeFees_NoCopy(tx, d, eip1559) ==
    IF eip1559 THEN [FillFeeMarket(tx, d) EXCEPT !.gasPrice = Undefined]
    ELSE [tx EXCEPT !.maxPriorityFeePerGas = Undefined, !.maxFeePerGas = Undefined]

\* the network-shape step of addTxGasDefaults (lines 426-493)
ShapeFees(tx, d, eip1559) ==
    IF eip1559
    THEN LET t == IF tx.gasPrice # Undefined /\ tx.maxFeePerGas = Undefined
                     /\ tx.maxPriorityFeePerGas = Undefined
                  THEN [tx EXCEPT !.maxFeePerGas = tx.gasPrice,
                                  !.maxPriorityFeePerGas = tx.gasPrice,
                                  !.userFeeLevel = "custom"]
                  ELSE FillFeeMarket(tx, d)
         IN [t EXCEPT !.gasPrice = Undefined]
    ELSE [tx EXCEPT !.maxPriorityFeePerGas = Undefined, !.maxFeePerGas = Undefined]

\* addTxGasDefaults on the stored record tx, once its fee and gas-limit queries answered
addTxGasDefaults(tx, env) ==
    LET d == _getDefaultGasFees(tx, env)
        limit == _getDefaultGasLimit(tx, env)
        s == ShapeFees(tx, d, env.eip1559)
        p == IF d.gasPrice # Undefined /\ s.gasPrice = Undefined
                /\ s.maxPriorityFeePerGas = Undefined /\ s.maxFeePerGas = Undefined
             THEN [s EXCEPT !.gasPrice = d.gasPrice] ELSE s
    IN IF limit # Undefined /\ p.gas = Undefined THEN [p EXCEPT !.gas = limit] ELSE p

\* ------------------------------------------------------- replacement fees
\* BnMultiplyByFraction: floor(x * numerator / denominator) on big integers
BnMultiplyByFraction(x, numerator, denominator) ==
    (x \div denominator) * numerator + ((x % denominator) * numerator) \div denominator

NoCustomGas == [given |-> TRUE, gasLimit |-> Undefined, gas |-> Undefined,
                gasPrice |-> Undefined, maxFeePerGas |-> Undefined,
                maxPriorityFeePerGas |-> Undefined]

\* BumpOr without the bump: the original fee is carried over unchanged
BumpOr_Same(customValue, original, incrementNumerator) ==
    IF customValue # Undefined THEN customValue ELSE original

\* `custom || bump(original)`: the override when given, else the percentage bump
BumpOr(customValue, original, incrementNumerator) ==
    IF customValue # Undefined THEN customValue
    ELSE BnMultiplyByFraction(original, incrementNumerator, 10)

\* hexToBn of an absent fee field throws
GenerateThrows(tx, custom) ==
    IF isEIP1559Transaction(tx) THEN FALSE
    ELSE custom.gasPrice = Undefined /\ tx.gasPrice = Undefined

\* a generateNewGasParams that takes every custom fee field, whatever the shape
generateNewGasParams_AnyShape(tx, custom, incrementNumerator) ==
    [previousGasParams |->
        [has |-> TRUE, gasPrice |-> tx.gasPrice, maxFeePerGas |-> tx.maxFeePerGas,
         maxPriorityFeePerGas |-> tx.maxPriorityFeePerGas],
     newGasParams |->
        [gas |-> Undefined,
         gasPrice |-> IF isEIP1559Transaction(tx) THEN custom.gasPrice
                      ELSE BumpOr(custom.gasPrice, tx.gasPrice, incrementNumerator),
         maxFeePerGas |->
             IF isEIP1559Transaction(tx)
             THEN BumpOr(custom.maxFeePerGas, tx.maxFeePerGas, incrementNumerator)
             ELSE custom.maxFeePerGas,
         maxPriorityFeePerGas |->
             IF isEIP1559Transaction(tx)
             THEN BumpOr(custom.maxPriorityFeePerGas, tx.maxPriorityFeePerGas,
                         incrementNumerator)
             ELSE custom.maxPriorityFeePerGas]]

\* generateNewGasParams (lines 638-685)
generateNewGasParams(tx, custom, incrementNumerator) ==
    LET gas == IF custom.gasLimit # Undefined
               THEN (IF custom.gas # Undefined THEN custom.gas ELSE GAS_LIMITS_SIMPLE)
               ELSE Undefined
    IN IF isEIP1559Transaction(tx)
       THEN [previousGasParams |->
                [has |-> TRUE, gasPrice |-> Undefined,
                 maxFeePerGas |-> tx.maxFeePerGas,
                 maxPriorityFeePerGas |-> tx.maxPriorityFeePerGas],
             newGasParams |->
                [gas |-> gas, gasPrice |-> Undefined,
                 maxFeePerGas |->
                     BumpOr(custom.maxFeePerGas, tx.maxFeePerGas, incrementNumerator),
                 maxPriorityFeePerGas |->
                     BumpOr(custom.maxPriorityFeePerGas, tx.maxPriorityFeePerGas,
                            incrementNumerator)]]
       ELSE [previousGasParams |->
                [has |-> TRUE, gasPrice |-> tx.gasPrice, maxFeePerGas |-> Undefined,
                 maxPriorityFeePerGas |-> Undefined],
             newGasParams |->
                [gas |-> gas, maxFeePerGas |-> Undefined,
                 maxPriorityFeePerGas |-> Undefined,
                 gasPrice |-> BumpOr(custom.gasPrice, tx.gasPrice, incrementNumerator)]]


\* {...txParams, ...newGasParams}: a key of newGasParams replaces the same key
MergeGas(tx, new) ==
    [tx EXCEPT !.gas = IF new.gas # Undefined THEN new.gas ELSE @,
               !.gasPrice = IF new.gasPrice # Undefined THEN new.gasPrice ELSE @,
               !.maxFeePerGas = IF new.maxFeePerGas # Undefined
                                THEN new.maxFeePerGas ELSE @,
               !.maxPriorityFeePerGas = IF new.maxPriorityFeePerGas # Undefined
                                        THEN new.maxPriorityFeePerGas ELSE @]

\* createCancelTransaction reads customGasSettings.gasLimit of an absent argument
CancelThrows(orig, custom) ==
    \/ ~custom.given
    \/ GenerateThrows(orig, custom)

\* a createCancelTransaction that spreads the original txParams into the new record
CancelMeta_KeepPayload(orig, origId, custom) ==
    LET g == generateNewGasParams(orig,
                 [custom EXCEPT !.gasLimit = IF @ # Undefined THEN @
                                             ELSE GAS_LIMITS_SIMPLE], 11)
        base == generateTxMeta(orig.from, orig.to, orig.value, orig.data, orig.gas,
                               orig.gasPrice, orig.maxFeePerGas,
                               orig.maxPriorityFeePerGas, "approved", "cancel")
    IN MergeGas([base EXCEPT !.nonce = orig.nonce, !.origin = "",
                             !.loadingDefaults = FALSE,
                             !.previousGasParams = g.previousGasParams,
                             !.originalTxId = origId],
                g.newGasParams)

\* the record createCancelTransaction builds for the original record orig (id origId)
CancelMeta(orig, origId, custom) ==
    LET g == generateNewGasParams(orig,
                 [custom EXCEPT !.gasLimit = IF @ # Undefined THEN @
                                             ELSE GAS_LIMITS_SIMPLE], 11)
        base == generateTxMeta(orig.from, orig.from, 0, FALSE, Undefined, Undefined,
                               Undefined, Undefined, "approved", "cancel")
    IN MergeGas([base EXCEPT !.nonce = orig.nonce, !.origin = "",
                             !.loadingDefaults = FALSE,
                             !.previousGasParams = g.previousGasParams,
                             !.originalTxId = origId],
                g.newGasParams)

\* the record createSpeedUpTransaction builds for the original record orig (id origId)
SpeedUpMeta(orig, origId, custom) ==
    LET g == generateNewGasParams(orig, custom, 11)
        base == generateTxMeta(orig.from, orig.to, orig.value, orig.data, orig.gas,
                               orig.gasPrice, orig.maxFeePerGas,
                               orig.maxPriorityFeePerGas, "approved", "retry")
    IN MergeGas([base EXCEPT !.nonce = orig.nonce, !.origin = "",
                             !.loadingDefaults = FALSE,
                             !.previousGasParams = g.previousGasParams,
                             !.originalTxId = origId],
                g.newGasParams)


\* ------------------------------------------------------ transaction store
\* position of a status in the status graph
Rank(status) ==
    CASE status = "unapproved" -> 0
      [] status = "approved" -> 1
      [] status = "signed" -> 2
      [] status = "submitted" -> 3
      [] OTHER -> 4

\* a store that accepts every status change
ValidTransition_Any(old, new) == TRUE

\* updateStatus accepts forward moves of a non-terminal record only;
\* rejected is entered from unapproved or approved
ValidTransition(old, new) ==
    /\ old \notin Terminal
    /\ Rank(new) >= Rank(old)
    /\ new = "rejected" => old \in {"unapproved", "approved"}

\* setTxStatusApproved / Signed / Submitted / Confirmed / Rejected raise
\* InvalidTransitionError on an illegal move
StatusThrows(t, id, new) == ~ValidTransition(t[id].status, new)

setTxStatus(t, id, new) ==
    IF ValidTransition(t[id].status, new) THEN [t EXCEPT ![id].status = new] ELSE t

\* setTxStatusFailed that also overwrites a terminal record
setTxStatusFailed_Always(t, id, error) ==
    [t EXCEPT ![id].status = "failed", ![id].err = error]

\* setTxStatusFailed: records the error; a no-op on a terminal record
setTxStatusFailed(t, id, error) ==
    IF t[id].status \in Terminal THEN t
    ELSE [t EXCEPT ![id].status = "failed", ![id].err = error]

\* setTxStatusDropped: a no-op on a terminal record
setTxStatusDropped(t, id) ==
    IF t[id].status \in Terminal THEN t ELSE [t EXCEPT ![id].status = "dropped"]

\* getPendingTransactions(address) and getConfirmedTransactions(address)
PendingOrConfirmed(t, address) ==
    {i \in 1..Len(t) : t[i].from = address /\ t[i].status \in {"submitted", "confirmed"}
                       /\ t[i].nonce # NoNonce}

\* ----------------------------------------------------------- nonce tracker
\* nextNonce = max(network count, highest local pending-or-confirmed nonce + 1)
nextNonce(t, address, networkNonce) ==
    LET local == {hexToNumber(t[i].nonce) + 1 : i \in PendingOrConfirmed(t, address)}
    IN IF local = {} THEN networkNonce
       ELSE Max(networkNonce, CHOOSE m \in local : \A k \in local : k <= m)

\* nonceLock.releaseLock()
releaseLock(holder, address) == [holder EXCEPT ![address] = 0]

\* no mutual exclusion: the lock is handed out at once
LockFree_Always(holder, address) == TRUE

\* one mutex for all addresses: free only when nobody holds any lock
LockFree_Global(holder, address) == \A b \in DOMAIN holder : holder[b] = 0

\* getNonceLock(address) waits for the mutex of that address only
LockFree(holder, address) == holder[address] = 0

\* a release function that frees the mutex whoever holds it now
ReleaseOnce_Whoever(holder, address, token) == releaseLock(holder, address)

\* the release function handed out with lock `token`: the first call frees the mutex,
\* later calls do nothing
ReleaseOnce(holder, address, token) ==
    IF holder[address] = token THEN releaseLock(holder, address) ELSE holder

\* ------------------------------------------------------------- controller
\* _failTransaction that records nothing
_failTransaction_Silent(t, id, error) == t

_failTransaction(t, id, error) == setTxStatusFailed(t, id, error)

\* a _dropTransaction that writes the status whatever the record's status is
_dropTransaction_Always(t, id) == [t EXCEPT ![id].status = "dropped"]

_dropTransaction(t, id) == setTxStatusDropped(t, id)

\* records other than txId that share its sender and nonce
SameNonceTxs(t, txId) ==
    {i \in 1..Len(t) : i # txId /\ t[i].from = t[txId].from
                       /\ t[i].nonce = t[txId].nonce}

\* confirmTransaction without the nonce-duplicate resolution
_markNonceDuplicatesDropped_None(t, txId) == t

_markNonceDuplicatesDropped(t, txId) ==
    [i \in 1..Len(t) |->
        IF i \in SameNonceTxs(t, txId)
        THEN [_dropTransaction(t, i)[i] EXCEPT !.replacedBy = t[txId].hash]
        ELSE t[i]]

\* approveTransaction without the coalescing guard
AlreadySigning_Never(signing, txId) == FALSE

\* this.inProcessOfSigning.has(txId)
AlreadySigning(signing, txId) == txId \in signing

\* the nonce choice ignoring the lock's nextNonce
ChooseNonce_Stale(tx, next) ==
    IF tx.previousGasParams.has THEN tx.nonce ELSE numberToHex(0)

\* the nonce choice ignoring previousGasParams: always the allocator's next nonce
ChooseNonce_Fresh(tx, next) == numberToHex(next)

\* lines 838-844: a record with previousGasParams keeps its nonce, else the lock's
ChooseNonce(tx, next) ==
    IF tx.previousGasParams.has THEN tx.nonce ELSE numberToHex(next)

\* lines 841-842: a custom nonce value (0 included) wins over the chosen nonce
CustomOrNonce(customNonceValue, nonce) ==
    IF customNonceValue # Undefined THEN numberToHex(customNonceValue) ELSE nonce

\* a catch block that never releases the lock
CatchRelease_Kept(holder, address, locked) == holder

\* lines 868-870: the catch block releases the lock when one was acquired
CatchRelease(holder, address, locked) ==
    IF locked THEN releaseLock(holder, address) ELSE holder

IdleCall == [pc |-> "idle", txId |-> 0, customNonceValue |-> Undefined,
             payloadNonce |-> NoNonce]

Calls == 1..MaxCalls
IdleCalls == {c \in Calls : calls[c].pc = "idle"}
FreeCall == CHOOSE c \in IdleCalls : \A d \in IdleCalls : c <= d
InFlight == {"waitLock", "config", "signing", "publishing"}

\* what the step just taken handed back to the caller of approveTransaction: nothing
\* (the step ended no call), a return ("ok", "noop") or the error it threw
NoReturn == [txId |-> 0, result |-> ""]
Returned(id, result) == [txId |-> id, result |-> result]

\* approveTransaction up to its first suspension, on the store t left by its caller
ApproveBegin(c, id, t) ==
    IF AlreadySigning(inProcessOfSigning, id)
    THEN /\ txs' = t
         /\ returned' = Returned(id, "noop")
         /\ UNCHANGED <<inProcessOfSigning, calls, lockQueue>>
    ELSE IF StatusThrows(t, id, "approved")
    THEN /\ txs' = _failTransaction(t, id, "InvalidTransition")
         /\ returned' = Returned(id, "InvalidTransition")
         /\ UNCHANGED <<inProcessOfSigning, calls, lockQueue>>
    ELSE /\ txs' = setTxStatus(t, id, "approved")
         /\ returned' = NoReturn
         /\ inProcessOfSigning' = inProcessOfSigning \cup {id}
         /\ calls' = [calls EXCEPT ![c] =
                        [IdleCall EXCEPT !.pc = "waitLock", !.txId = id,
                                         !.customNonceValue = t[id].customNonceValue]]
         /\ lockQueue' = [lockQueue EXCEPT ![t[id].from] = Append(@, c)]

\* the catch / finally of approveTransaction (lines 860-875) on the store t
ApproveCatch(c, t, error, locked) ==
    LET id == calls[c].txId IN
    /\ txs' = _failTransaction(t, id, error)
    /\ returned' = Returned(id, error)
    /\ lockHolder' = CatchRelease(lockHolder, t[id].from, locked)
    /\ inProcessOfSigning' = inProcessOfSigning \ {id}
    /\ calls' = [calls EXCEPT ![c] = IdleCall]

\* ------------------------------------------------ events of the store
\* txStateManager.getPendingTransactions(): the submitted records
getPendingTransactions(t) == {i \in 1..Len(t) : t[i].status = "submitted"}

\* an updateSubscription that ignores the flag: registers whenever a record is pending
updateSubscription_NoFlag(sub, t) ==
    IF getPendingTransactions(t) # {}
    THEN [listenersAreActive |-> TRUE, latest |-> sub.latest + 1]
    ELSE [listenersAreActive |-> FALSE,
          latest |-> IF sub.latest > 0 THEN sub.latest - 1 ELSE 0]

\* updateSubscription (lines 1293-1302), run on every 'tx:status-update': on('latest')
\* adds one registration, removeListener takes one away
updateSubscription(sub, t) ==
    LET pendingTxs == getPendingTransactions(t) IN
    IF ~sub.listenersAreActive /\ Cardinality(pendingTxs) > 0
    THEN [listenersAreActive |-> TRUE, latest |-> sub.latest + 1]
    ELSE IF sub.listenersAreActive /\ Cardinality(pendingTxs) = 0
    THEN [listenersAreActive |-> FALSE,
          latest |-> IF sub.latest > 0 THEN sub.latest - 1 ELSE 0]
    ELSE sub

Subscription == [listenersAreActive |-> listenersAreActive, latest |-> latestListeners]

Subscribe(sub) ==
    /\ listenersAreActive' = sub.listenersAreActive
    /\ latestListeners' = sub.latest

\* the statuses on which the store emits `${id}:finished`
FinishedStatuses == {"submitted", "rejected", "failed"}

\* the status update old -> new of record id emits `${id}:finished`
Finished(old, new, id) ==
    /\ new[id].status \in FinishedStatuses
    /\ new[id].status # old[id].status

\* lines 287-311: the listener of newUnapprovedTransaction settles the promise
Settle(r, txMeta) ==
    IF txMeta.status = "submitted"
    THEN [r EXCEPT !.pc = "resolved", !.hash = txMeta.hash]
    ELSE [r EXCEPT !.pc = "rejected", !.error = txMeta.status]

\* once(`${id}:finished`) listeners registered when the event is emitted are run
Delivered(old, new) ==
    [k \in DOMAIN intake |->
        IF intake[k].pc = "listening" /\ Finished(old, new, intake[k].id)
        THEN Settle(intake[k], new[intake[k].id])
        ELSE intake[k]]

\* the listeners of the store's status-update events, run within the step that
\* changed the status and left the store as t
StatusUpdate(t) ==
    /\ Subscribe(updateSubscription(Subscription, t))
    /\ intake' = Delivered(txs, t)

\* a step of the lifecycle that changed a status
LifeStatusUpdate ==
    /\ StatusUpdate(txs')
    /\ UNCHANGED <<events, jobs, booted>>
    /\ UNCHANGED <<gasVars, lockVars, passVars>>

\* ------------------------------------------------------------ environment
\* what the fee source, the node and the chain configuration answer during defaulting
Env(eip1559, estimateType, maxFee, maxPrio, medium, estGasPrice, chainType) ==
    [eip1559 |-> eip1559, estimateType |-> estimateType,
     suggestedMaxFeePerGas |-> maxFee, suggestedMaxPriorityFeePerGas |-> maxPrio,
     medium |-> medium, estGasPrice |-> estGasPrice, nodeGasPrice |-> 7,
     chainType |-> chainType, bufferedGasLimit |-> 50000]

\* the lifecycle specification runs on one legacy network with a steady estimate
LifeEnvs == {Env(FALSE, "legacy", Undefined, Undefined, 1, Undefined, "mainnet")}

\* requests of the lifecycle specification: a plain transfer without gas fields
LifeDrafts ==
    {generateTxMeta(from, "B", 1, FALSE, Undefined, Undefined, Undefined, Undefined,
                    "unapproved", "sentEther") : from \in Addresses}

CustomNonces == {Undefined, 0}

NoGasTx == generateTxMeta("A", "", 0, FALSE, Undefined, Undefined, Undefined, Undefined,
                          "unapproved", "sentEther")

GasIdle ==
    /\ gasDraft = NoGasTx
    /\ gasTx = NoGasTx
    /\ gasEnv = Env(FALSE, "none", Undefined, Undefined, Undefined, Undefined, "mainnet")
    /\ gasPc = "off"
    /\ gasNew = NoGasTx
    /\ gasCustom = NoCustomGas

\* the controller after construction: an empty store, no approval under way
LifeIdle ==
    /\ txs = <<>>
    /\ inProcessOfSigning = {}
    /\ calls = [c \in Calls |-> IdleCall]
    /\ lockHolder = [a \in Addresses |-> 0]
    /\ lockQueue = [a \in Addresses |-> <<>>]
    /\ netNonce = [a \in Addresses |-> 0]
    /\ returned = NoReturn

\* promise: the call came through newUnapprovedTransaction; hash and error: what the
\* promise it returned was settled with
IdleIntake == [pc |-> "idle", draft |-> NoGasTx, origin |-> "", id |-> 0,
               hasCode |-> FALSE, promise |-> FALSE, hash |-> 0, error |-> ""]

Intakes == 1..MaxIntake

\* no intake under way, nothing emitted, no clean-up promise pending
IntakeIdle ==
    /\ intake = [k \in Intakes |-> IdleIntake]
    /\ events = <<>>
    /\ jobs = [i \in 1..MaxTx |-> 0]
    /\ booted = TRUE

IdleClient == [pc |-> "idle", address |-> "A", token |-> 0]

Clients == 1..MaxClients

\* nobody outside the controller asked for a nonce lock
LockIdle ==
    /\ clients = [c \in Clients |-> IdleClient]
    /\ handles = <<>>

IdlePass == [pc |-> "idle", running |-> FALSE, block |-> 0, startup |-> FALSE]

\* line 169: _updatePendingTxsAfterFirstBlock waits for blockTracker.getLatestBlock()
StartupPass == [IdlePass EXCEPT !.pc = "firstBlock", !.startup = TRUE]

Passes == 1..MaxPasses

\* no block yet, nothing logged, no handler running
NoBlocks ==
    /\ latestBlock = 0
    /\ logged = 0

\* the tracker wiring after construction over an empty store: no listener on
\* 'latest', the start-up pass waiting for the first block
TrackerIdle ==
    /\ listenersAreActive = FALSE
    /\ latestListeners = 0
    /\ passes = [h \in Passes |-> IF h = 1 THEN StartupPass ELSE IdlePass]
    /\ NoBlocks

Init == LifeIdle /\ GasIdle /\ IntakeIdle /\ LockIdle /\ TrackerIdle

\* ------------------------------------------------------------------ intake
\* the record as addTxGasDefaults leaves it in the store, or unchanged when it throws
WithGasDefaults(tx, env) ==
    [(IF GasLimitThrows(tx, env) THEN tx ELSE addTxGasDefaults(tx, env))
        EXCEPT !.loadingDefaults = FALSE]

\* addUnapprovedTransaction: the record is added and its gas defaults are filled in
addUnapprovedTransaction(draft, env) ==
    /\ Len(txs) < MaxTx
    /\ txs' = Append(txs, WithGasDefaults(draft, env))
    /\ returned' = NoReturn
    /\ UNCHANGED <<inProcessOfSigning, calls, lockHolder, lockQueue, netNonce>>
    /\ UNCHANGED <<gasVars, intakeVars, lockVars>>
    /\ UNCHANGED trackerVars

\* ---------------------------------------------------------------- approval
\* updateAndApproveTransaction from the confirmation screen (which lists the
\* unapproved records), with the nonce field the user may have filled in
updateAndApproveTransaction(id, customNonceValue) ==
    /\ id \in 1..Len(txs)
    /\ txs[id].status = "unapproved"
    /\ IdleCalls # {}
    /\ ApproveBegin(FreeCall, id, [txs EXCEPT ![id].customNonceValue = customNonceValue])
    /\ UNCHANGED <<lockHolder, netNonce>>
    /\ LifeStatusUpdate

\* approveTransaction(txId) called again on a record already approved (a repeated
\* click, the tracker's resubmission)
approveTransaction(id) ==
    /\ id \in 1..Len(txs)
    /\ txs[id].status \in {"approved", "signed", "submitted"}
    /\ IdleCalls # {}
    /\ ApproveBegin(FreeCall, id, txs)
    /\ UNCHANGED <<lockHolder, netNonce>>
    /\ LifeStatusUpdate

\* getNonceLock rejects: the network nonce query failed, no lock is handed out
approveTransaction_nonceFailed(c) ==
    LET a == txs[calls[c].txId].from IN
    /\ calls[c].pc = "waitLock"
    /\ LockFree(lockHolder, a) /\ Head(lockQueue[a]) = c
    /\ lockQueue' = [lockQueue EXCEPT ![a] = Tail(@)]
    /\ ApproveCatch(c, txs, "NonceError", FALSE)
    /\ UNCHANGED netNonce
    /\ LifeStatusUpdate

\* getNonceLock resolves: the nonce is written and signTransaction starts
approveTransaction_nonce(c) ==
    LET id == calls[c].txId
        a == txs[id].from
        nonce == CustomOrNonce(calls[c].customNonceValue,
                               ChooseNonce(txs[id], nextNonce(txs, a, netNonce[a])))
    IN
    /\ calls[c].pc = "waitLock"
    /\ LockFree(lockHolder, a) /\ Head(lockQueue[a]) = c
    /\ lockQueue' = [lockQueue EXCEPT ![a] = Tail(@)]
    /\ IF nonce = NoNonce
       THEN ApproveCatch(c, txs, "TypeError", TRUE)
       ELSE /\ txs' = [txs EXCEPT ![id].nonce = nonce]
            /\ returned' = NoReturn
            /\ lockHolder' = [lockHolder EXCEPT ![a] = c]
            /\ calls' = [calls EXCEPT ![c].pc = "config", ![c].payloadNonce = nonce]
            /\ UNCHANGED inProcessOfSigning
    /\ UNCHANGED netNonce
    /\ LifeStatusUpdate

\* getCommonConfiguration resolves: the signer is handed the payload built at line 890
approveTransaction_config(c) ==
    /\ calls[c].pc = "config"
    /\ calls' = [calls EXCEPT ![c].pc = "signing"]
    /\ UNCHANGED <<txs, inProcessOfSigning, lockHolder, lockQueue, netNonce>>
    /\ returned' = NoReturn
    /\ UNCHANGED <<gasVars, intakeVars, lockVars>>
    /\ UNCHANGED trackerVars

\* the signer rejects
approveTransaction_signFailed(c) ==
    /\ calls[c].pc = "signing"
    /\ ApproveCatch(c, txs, "SignError", TRUE)
    /\ UNCHANGED <<lockQueue, netNonce>>
    /\ LifeStatusUpdate

\* the signer returns: status signed, then publishTransaction up to sendRawTransaction
approveTransaction_signed(c) ==
    LET id == calls[c].txId
        signed == [txs EXCEPT ![id].signedNonce = calls[c].payloadNonce]
    IN
    /\ calls[c].pc = "signing"
    /\ IF StatusThrows(signed, id, "signed")
       THEN ApproveCatch(c, signed, "InvalidTransition", TRUE)
       ELSE /\ txs' = [setTxStatus(signed, id, "signed") EXCEPT
                          ![id].rawTx = TRUE,
                          ![id].sentNonce = calls[c].payloadNonce]
            /\ returned' = NoReturn
            /\ calls' = [calls EXCEPT ![c].pc = "publishing"]
            /\ UNCHANGED <<inProcessOfSigning, lockHolder>>
    /\ UNCHANGED <<lockQueue, netNonce>>
    /\ LifeStatusUpdate

\* sendRawTransaction rejects with anything but 'known transaction'
approveTransaction_publishFailed(c) ==
    /\ calls[c].pc = "publishing"
    /\ ApproveCatch(c, txs, "BroadcastError", TRUE)
    /\ UNCHANGED <<lockQueue, netNonce>>
    /\ LifeStatusUpdate

\* a setTxHash that writes nothing
setTxHash_None(t, id, hash) == t

\* setTxHash (lines 1052-1057): the hash is written into the stored record
setTxHash(t, id, hash) == [t EXCEPT ![id].hash = hash]

\* sendRawTransaction answers with the hash, or rejects with 'known transaction' and
\* the hash is computed from rawTx (lines 939-947): setTxHash, then submitted, release
approveTransaction_published(c) ==
    LET id == calls[c].txId
        t == setTxHash(txs, id, id)
    IN
    /\ calls[c].pc = "publishing"
    /\ IF StatusThrows(t, id, "submitted")
       THEN ApproveCatch(c, t, "InvalidTransition", TRUE)
       ELSE /\ txs' = setTxStatus(t, id, "submitted")
            /\ returned' = Returned(id, "ok")
            /\ lockHolder' = releaseLock(lockHolder, t[id].from)
            /\ inProcessOfSigning' = inProcessOfSigning \ {id}
            /\ calls' = [calls EXCEPT ![c] = IdleCall]
    /\ UNCHANGED <<lockQueue, netNonce>>
    /\ LifeStatusUpdate

\* ------------------------------------------------------------ replacements
LifeCustoms == {NoCustomGas}

\* createSpeedUpTransaction: the new record is added and approveTransaction runs on it
createSpeedUpTransaction(originalTxId, custom) ==
    /\ originalTxId \in 1..Len(txs)
    /\ Len(txs) < MaxTx
    /\ IdleCalls # {}
    /\ ~GenerateThrows(txs[originalTxId], custom)
    /\ ApproveBegin(FreeCall, Len(txs) + 1,
                    Append(txs, SpeedUpMeta(txs[originalTxId], originalTxId, custom)))
    /\ UNCHANGED <<lockHolder, netNonce>>
    /\ LifeStatusUpdate

\* createCancelTransaction: the new record is added and approveTransaction runs on it
createCancelTransaction(originalTxId, custom) ==
    /\ originalTxId \in 1..Len(txs)
    /\ Len(txs) < MaxTx
    /\ IdleCalls # {}
    /\ ~CancelThrows(txs[originalTxId], custom)
    /\ ApproveBegin(FreeCall, Len(txs) + 1,
                    Append(txs, CancelMeta(txs[originalTxId], originalTxId, custom)))
    /\ UNCHANGED <<lockHolder, netNonce>>
    /\ LifeStatusUpdate

\* ------------------------------------------------- terminal transitions
\* the receipts the tracker hands over, by what typeof txReceipt.gasUsed is
Receipts == {[gasUsed |-> "string"], [gasUsed |-> "BN"], [gasUsed |-> "undefined"]}

\* lines 972-975: gasUsed.toString(16) raises TypeError on a receipt without gasUsed
ReceiptThrows(txReceipt) == txReceipt.gasUsed = "undefined"

\* a confirmTransaction that leaves the receipt for a later step
WithReceipt_Later(t, txId, txReceipt) == t

\* lines 977-980: the receipt, with gasUsed as a string, is put on the record
WithReceipt(t, txId, txReceipt) == [t EXCEPT ![txId].txReceipt = TRUE]

\* confirmTransaction, called for the tracker's tx:confirmed on a submitted record;
\* an error in its try block is logged only (lines 1031-1033)
confirmTransaction(txId, txReceipt) ==
    LET confirmed == setTxStatus(WithReceipt(txs, txId, txReceipt), txId, "confirmed")
        dropped == _markNonceDuplicatesDropped(confirmed, txId)
    IN
    /\ txId \in 1..Len(txs)
    /\ txs[txId].status = "submitted"
    /\ IF ReceiptThrows(txReceipt)
       THEN UNCHANGED <<txs, listenersAreActive, latestListeners, intake>>
       ELSE /\ txs' = dropped
            /\ Subscribe(updateSubscription(updateSubscription(Subscription, confirmed),
                                            dropped))
            /\ intake' = Delivered(txs, dropped)
    /\ netNonce' = [netNonce EXCEPT ![txs[txId].from] =
                       Max(@, hexToNumber(txs[txId].nonce) + 1)]
    /\ UNCHANGED <<inProcessOfSigning, calls, lockHolder, lockQueue>>
    /\ returned' = NoReturn
    /\ UNCHANGED <<events, jobs, booted>>
    /\ UNCHANGED <<gasVars, lockVars, passVars>>

\* the tracker's tx:dropped: no receipt and the sender's network nonce is past the record's
trackerDropped(txId) ==
    /\ txId \in 1..Len(txs)
    /\ txs[txId].status = "submitted"
    /\ netNonce[txs[txId].from] > hexToNumber(txs[txId].nonce)
    /\ txs' = _dropTransaction(txs, txId)
    /\ UNCHANGED <<inProcessOfSigning, calls, lockHolder, lockQueue, netNonce>>
    /\ returned' = NoReturn
    /\ LifeStatusUpdate

\* the tracker's tx:failed
trackerFailed(txId) ==
    /\ txId \in 1..Len(txs)
    /\ txs[txId].status = "submitted"
    /\ txs' = _failTransaction(txs, txId, "TrackerError")
    /\ UNCHANGED <<inProcessOfSigning, calls, lockHolder, lockQueue, netNonce>>
    /\ returned' = NoReturn
    /\ LifeStatusUpdate

\* cancelTransaction: the user rejects the record
cancelTransaction(txId) ==
    /\ txId \in 1..Len(txs)
    /\ txs' = setTxStatus(txs, txId, "rejected")
    /\ UNCHANGED <<inProcessOfSigning, calls, lockHolder, lockQueue, netNonce>>
    /\ returned' = NoReturn
    /\ LifeStatusUpdate

\* _onBootCleanUp, run by the constructor and on every network change
_onBootCleanUp(env) ==
    /\ txs' = [i \in 1..Len(txs) |->
                  IF txs[i].status = "approved"
                  THEN _failTransaction(txs, i, "BootError")[i]
                  ELSE IF txs[i].status = "unapproved" /\ txs[i].loadingDefaults
                  THEN IF GasLimitThrows(txs[i], env)
                       THEN _failTransaction([txs EXCEPT ![i].loadingDefaults = FALSE],
                                             i, "GasError")[i]
                       ELSE WithGasDefaults(txs[i], env)
                  ELSE txs[i]]
    /\ returned' = NoReturn
    /\ UNCHANGED <<inProcessOfSigning, calls, lockHolder, lockQueue, netNonce>>
    /\ LifeStatusUpdate

\* a transaction of the sender sent from elsewhere is mined
ExternalTx(a) ==
    /\ netNonce[a] < MaxNonce
    /\ netNonce' = [netNonce EXCEPT ![a] = @ + 1]
    /\ UNCHANGED <<txs, inProcessOfSigning, calls, lockHolder, lockQueue>>
    /\ returned' = NoReturn
    /\ UNCHANGED <<gasVars, intakeVars, lockVars>>
    /\ UNCHANGED trackerVars

Next ==
    \/ \E draft \in LifeDrafts, env \in LifeEnvs : addUnapprovedTransaction(draft, env)
    \/ \E id \in 1..Len(txs), n \in CustomNonces : updateAndApproveTransaction(id, n)
    \/ \E id \in 1..Len(txs) : approveTransaction(id)
    \/ \E c \in Calls : approveTransaction_nonceFailed(c)
    \/ \E c \in Calls : approveTransaction_nonce(c)
    \/ \E c \in Calls : approveTransaction_config(c)
    \/ \E c \in Calls : approveTransaction_signFailed(c)
    \/ \E c \in Calls : approveTransaction_signed(c)
    \/ \E c \in Calls : approveTransaction_publishFailed(c)
    \/ \E c \in Calls : approveTransaction_published(c)
    \/ \E id \in 1..Len(txs), custom \in LifeCustoms : createSpeedUpTransaction(id, custom)
    \/ \E id \in 1..Len(txs), custom \in LifeCustoms : createCancelTransaction(id, custom)
    \/ \E id \in 1..Len(txs), txReceipt \in Receipts : confirmTransaction(id, txReceipt)
    \/ \E id \in 1..Len(txs) : trackerDropped(id)
    \/ \E id \in 1..Len(txs) : trackerFailed(id)
    \/ \E id \in 1..Len(txs) : cancelTransaction(id)
    \/ \E env \in LifeEnvs : _onBootCleanUp(env)
    \/ \E a \in Addresses : ExternalTx(a)

Spec == Init /\ [][Next]_vars

\* ------------------------------------------------- intake, step by step
\* addUnapprovedTransaction suspends at getEIP1559Compatibility, getPermittedAccounts,
\* _determineTransactionType and addTxGasDefaults; _onBootCleanUp starts its
\* addTxGasDefaults promises and returns.  SpecIntake starts from a persisted store,
\* runs the constructor and then interleaves intakes, clean-ups and rejections.

\* preferencesStore.getState().selectedAddress
SelectedAddress == "A"

Origins == {"metamask", "dapp"}

\* getPermittedAccounts(origin): the accounts the user connected to the site
PermittedAccounts(origin) == IF origin = "dapp" THEN {"B"} ELSE {}

\* txUtils.validateTxParams throws: the request has no valid from address
ValidateThrows(draft) == draft.from \notin Addresses

\* lines 345-356: a wallet-internal request must come from the selected account
SenderThrows(origin, from) == origin = "metamask" /\ from # SelectedAddress

\* lines 357-364 without the check
OriginThrows_Never(origin, from) == FALSE

\* lines 357-364: an external origin must hold a permission for the sender
OriginThrows(origin, from) == from \notin PermittedAccounts(origin)

\* _determineTransactionType for call data that names no token method
_determineTransactionType(draft, hasCode) ==
    IF draft.data /\ draft.to = "" THEN "contractDeployment"
    ELSE IF hasCode THEN "contractInteraction"
    ELSE "sentEther"

\* the requests handed to addUnapprovedTransaction
IntakeDrafts ==
    {generateTxMeta(from, "B", 1, data, Undefined, Undefined, Undefined, Undefined,
                    "unapproved", "") : from \in Addresses \cup {""}, data \in BOOLEAN}

\* a call that ended, or whose promise was settled, leaves its slot
FreeIntakes == {k \in Intakes : intake[k].pc \in {"idle", "resolved", "rejected"}}
FreeIntake == CHOOSE k \in FreeIntakes : \A j \in FreeIntakes : k <= j

\* the call ends: it throws error to its caller, or returns the record ("ok")
IntakeEnd(k, result) ==
    /\ intake' = [intake EXCEPT ![k] = IdleIntake]
    /\ returned' = Returned(intake[k].id, result)

\* the call suspends at pc
IntakeAwait(k, pc) ==
    /\ intake' = [intake EXCEPT ![k].pc = pc]
    /\ returned' = NoReturn

\* lines 327-330: normalizeTxParams, then the wait for getEIP1559Compatibility
addUnapprovedTransaction_begin(draft, origin) ==
    /\ booted
    /\ FreeIntakes # {}
    /\ intake' = [intake EXCEPT ![FreeIntake] =
                     [IdleIntake EXCEPT !.pc = "validate", !.draft = draft,
                                        !.origin = origin]]
    /\ returned' = NoReturn
    /\ UNCHANGED <<txs, events, jobs, booted>>
    /\ UNCHANGED <<approvalVars, gasVars, lockVars>>
    /\ UNCHANGED trackerVars

\* lines 332-364 up to the wait for getPermittedAccounts
addUnapprovedTransaction_validate(k) ==
    LET r == intake[k] IN
    /\ r.pc = "validate"
    /\ IF ValidateThrows(r.draft) THEN IntakeEnd(k, "InvalidParams")
       ELSE IF SenderThrows(r.origin, r.draft.from)
       THEN IntakeEnd(k, "UnauthorizedSender")
       ELSE IntakeAwait(k, IF r.origin = "metamask" THEN "classify" ELSE "permissions")
    /\ UNCHANGED <<txs, events, jobs, booted>>
    /\ UNCHANGED <<approvalVars, gasVars, lockVars>>
    /\ UNCHANGED trackerVars

\* lines 360-366: the permission check, then the wait for _determineTransactionType
addUnapprovedTransaction_permissions(k) ==
    LET r == intake[k] IN
    /\ r.pc = "permissions"
    /\ IF OriginThrows(r.origin, r.draft.from) THEN IntakeEnd(k, "UnauthorizedOrigin")
       ELSE IntakeAwait(k, "classify")
    /\ UNCHANGED <<txs, events, jobs, booted>>
    /\ UNCHANGED <<approvalVars, gasVars, lockVars>>
    /\ UNCHANGED trackerVars

\* lines 366-380: type, addTransaction, emit, then the wait for addTxGasDefaults
addUnapprovedTransaction_add(k, hasCode) ==
    LET r == intake[k]
        id == Len(txs) + 1
    IN
    /\ r.pc = "classify"
    /\ Len(txs) < MaxTx
    /\ txs' = Append(txs, [r.draft EXCEPT
                              !.type = _determineTransactionType(r.draft, hasCode),
                              !.origin = r.origin])
    /\ events' = Append(events, id)
    /\ intake' = [intake EXCEPT ![k].pc = "defaults", ![k].id = id,
                                ![k].hasCode = hasCode]
    /\ returned' = NoReturn
    /\ UNCHANGED <<jobs, booted>>
    /\ UNCHANGED <<approvalVars, gasVars, lockVars>>
    /\ UNCHANGED trackerVars

\* lines 380-399: addTxGasDefaults settles; loadingDefaults is cleared either way.
\* A call made through newUnapprovedTransaction then registers its listener of
\* `${id}:finished` (lines 284-286) and waits for the event
addUnapprovedTransaction_defaults(k, env) ==
    LET r == intake[k] IN
    /\ r.pc = "defaults"
    /\ txs' = [txs EXCEPT ![r.id] = WithGasDefaults(@, env)]
    /\ IF GasLimitThrows(txs[r.id], env) THEN IntakeEnd(k, "GasError")
       ELSE IF r.promise THEN IntakeAwait(k, "listening")
       ELSE IntakeEnd(k, "ok")
    /\ UNCHANGED <<events, jobs, booted>>
    /\ UNCHANGED <<approvalVars, gasVars, lockVars>>
    /\ UNCHANGED trackerVars

\* a clean-up that leaves approved records as they are
_onBootCleanUp_approved_None(t) == t

\* lines 1131-1142: every approved record is failed
_onBootCleanUp_approved(t) ==
    [i \in 1..Len(t) |->
        IF t[i].status = "approved" THEN _failTransaction(t, i, "BootError")[i] ELSE t[i]]

\* lines 1104-1111: the unapproved records still marked as loading defaults
_onBootCleanUp_loading(t) ==
    {i \in 1..Len(t) : t[i].status = "unapproved" /\ t[i].loadingDefaults}

\* the synchronous part of _onBootCleanUp: defaulting promises started, approved failed
BootCleanUp ==
    /\ txs' = _onBootCleanUp_approved(txs)
    /\ jobs' = [i \in 1..MaxTx |->
                   IF i \in _onBootCleanUp_loading(txs) THEN jobs[i] + 1 ELSE jobs[i]]

\* line 127: the constructor runs the clean-up over the persisted store
\* line 158: _setupBlockTrackerListener calls updateSubscription() once;
\* line 169: the start-up pass is started
constructor ==
    /\ ~booted
    /\ booted' = TRUE
    /\ BootCleanUp
    /\ Subscribe(updateSubscription([listenersAreActive |-> FALSE, latest |-> 0], txs'))
    /\ passes' = [passes EXCEPT ![1] = StartupPass]
    /\ UNCHANGED <<intake, events, latestBlock, logged>>
    /\ returned' = NoReturn
    /\ UNCHANGED <<approvalVars, gasVars, lockVars>>

\* lines 163-166: the network store changed
networkChange ==
    /\ booted
    /\ \A i \in _onBootCleanUp_loading(txs) : jobs[i] < MaxJobs
    /\ BootCleanUp
    /\ StatusUpdate(txs')
    /\ UNCHANGED <<events, booted>>
    /\ returned' = NoReturn
    /\ UNCHANGED <<approvalVars, gasVars, lockVars>>
    /\ UNCHANGED passVars

\* lines 1113-1119: a clean-up defaulting promise resolves
_onBootCleanUp_then(i, env) ==
    /\ i \in 1..Len(txs)
    /\ jobs[i] > 0
    /\ ~GasLimitThrows(txs[i], env)
    /\ txs' = [txs EXCEPT ![i] = WithGasDefaults(@, env)]
    /\ jobs' = [jobs EXCEPT ![i] = @ - 1]
    /\ UNCHANGED <<intake, events, booted>>
    /\ returned' = NoReturn
    /\ UNCHANGED <<approvalVars, gasVars, lockVars>>
    /\ UNCHANGED trackerVars

\* lines 1120-1128: a clean-up defaulting promise rejects
_onBootCleanUp_catch(i, env) ==
    /\ i \in 1..Len(txs)
    /\ jobs[i] > 0
    /\ GasLimitThrows(txs[i], env)
    /\ txs' = _failTransaction([txs EXCEPT ![i].loadingDefaults = FALSE], i, "GasError")
    /\ jobs' = [jobs EXCEPT ![i] = @ - 1]
    /\ StatusUpdate(txs')
    /\ UNCHANGED <<events, booted>>
    /\ returned' = NoReturn
    /\ UNCHANGED <<approvalVars, gasVars, lockVars>>
    /\ UNCHANGED passVars

\* what a store read back at start can hold: a request caught while loading its
\* defaults (plain, or carrying data for an address without code), a defaulted
\* request, a record caught between approval and signature, a broadcast record
PersistedKinds == {"loading", "loadingData", "unapproved", "approved", "submitted"}

PersistedRecord(kind) ==
    LET draft == generateTxMeta("A", "B", 1, kind = "loadingData", Undefined, Undefined,
                                Undefined, Undefined, "unapproved", "sentEther")
        ready == [draft EXCEPT !.gas = GAS_LIMITS_SIMPLE,
                               !.gasPrice = decGWEIToHexWEI(1),
                               !.loadingDefaults = FALSE]
    IN CASE kind \in {"loading", "loadingData"} -> draft
         [] kind = "unapproved" -> ready
         [] kind = "approved" -> [ready EXCEPT !.status = "approved"]
         [] OTHER -> [ready EXCEPT !.status = "submitted", !.nonce = numberToHex(0),
                                   !.rawTx = TRUE, !.hash = 1,
                                   !.signedNonce = numberToHex(0),
                                   !.sentNonce = numberToHex(0)]

PersistedStores ==
    UNION {{[i \in 1..n |-> PersistedRecord(kinds[i])] : kinds \in [1..n -> PersistedKinds]} :
             n \in 0..MaxTx}

IntakeInit ==
    /\ txs \in PersistedStores
    /\ inProcessOfSigning = {}
    /\ calls = [c \in Calls |-> IdleCall]
    /\ lockHolder = [a \in Addresses |-> 0]
    /\ lockQueue = [a \in Addresses |-> <<>>]
    /\ netNonce = [a \in Addresses |-> 0]
    /\ returned = NoReturn
    /\ GasIdle /\ LockIdle
    /\ intake = [k \in Intakes |-> IdleIntake]
    /\ events = <<>>
    /\ jobs = [i \in 1..MaxTx |-> 0]
    /\ booted = FALSE
    /\ listenersAreActive = FALSE
    /\ latestListeners = 0
    /\ passes = [h \in Passes |-> IdlePass]
    /\ NoBlocks

\* the networks of the intake specification: a built-in and a custom legacy network
IntakeEnvs ==
    {Env(FALSE, "legacy", Undefined, Undefined, 1, Undefined, chainType) :
        chainType \in {"mainnet", "custom"}}

NextIntake ==
    \/ constructor
    \/ networkChange
    \/ \E draft \in IntakeDrafts, origin \in Origins :
          addUnapprovedTransaction_begin(draft, origin)
    \/ \E k \in Intakes : addUnapprovedTransaction_validate(k)
    \/ \E k \in Intakes : addUnapprovedTransaction_permissions(k)
    \/ \E k \in Intakes, hasCode \in BOOLEAN : addUnapprovedTransaction_add(k, hasCode)
    \/ \E k \in Intakes, env \in IntakeEnvs : addUnapprovedTransaction_defaults(k, env)
    \/ \E i \in 1..MaxTx, env \in IntakeEnvs : _onBootCleanUp_then(i, env)
    \/ \E i \in 1..MaxTx, env \in IntakeEnvs : _onBootCleanUp_catch(i, env)
    \/ \E id \in 1..Len(txs) : booted /\ cancelTransaction(id)

SpecIntake == IntakeInit /\ [][NextIntake]_vars

\* ------------------------------------------ newUnapprovedTransaction
\* The request of a site: addUnapprovedTransaction step by step, then the promise
\* that waits for the record to finish, interleaved with the user's approval or
\* rejection of the record, which is on screen from 'newUnapprovedTx' on.

\* lines 274-282: newUnapprovedTransaction awaits addUnapprovedTransaction
newUnapprovedTransaction(draft, origin) ==
    /\ booted
    /\ FreeIntakes # {}
    /\ intake' = [intake EXCEPT ![FreeIntake] =
                     [IdleIntake EXCEPT !.pc = "validate", !.draft = draft,
                                        !.origin = origin, !.promise = TRUE]]
    /\ returned' = NoReturn
    /\ UNCHANGED <<txs, events, jobs, booted>>
    /\ UNCHANGED <<approvalVars, gasVars, lockVars>>
    /\ UNCHANGED trackerVars

\* the requests of a connected site for its permitted account, with and without data
SubmitDrafts == {d \in IntakeDrafts : d.from \in PermittedAccounts("dapp")}

NextSubmit ==
    \/ \E draft \in SubmitDrafts : newUnapprovedTransaction(draft, "dapp")
    \/ \E k \in Intakes : addUnapprovedTransaction_validate(k)
    \/ \E k \in Intakes : addUnapprovedTransaction_permissions(k)
    \/ \E k \in Intakes, hasCode \in BOOLEAN : addUnapprovedTransaction_add(k, hasCode)
    \/ \E k \in Intakes, env \in IntakeEnvs : addUnapprovedTransaction_defaults(k, env)
    \/ \E id \in 1..Len(txs) : cancelTransaction(id)
    \/ \E id \in 1..Len(txs) : updateAndApproveTransaction(id, Undefined)
    \/ \E c \in Calls : approveTransaction_nonceFailed(c)
    \/ \E c \in Calls : approveTransaction_nonce(c)
    \/ \E c \in Calls : approveTransaction_config(c)
    \/ \E c \in Calls : approveTransaction_signFailed(c)
    \/ \E c \in Calls : approveTransaction_signed(c)
    \/ \E c \in Calls : approveTransaction_publishFailed(c)
    \/ \E c \in Calls : approveTransaction_published(c)

SpecSubmit == Init /\ [][NextSubmit]_vars

\* every promise the controller awaits is answered and its continuation runs; the
\* user's approvals and rejections and new requests are under no obligation
SubmitFairness ==
    /\ \A k \in Intakes : WF_vars(addUnapprovedTransaction_validate(k))
    /\ \A k \in Intakes : WF_vars(addUnapprovedTransaction_permissions(k))
    /\ \A k \in Intakes : WF_vars(\E hasCode \in BOOLEAN : addUnapprovedTransaction_add(k, hasCode))
    /\ \A k \in Intakes : WF_vars(\E env \in IntakeEnvs : addUnapprovedTransaction_defaults(k, env))
    /\ \A c \in Calls : WF_vars(approveTransaction_nonceFailed(c) \/ approveTransaction_nonce(c))
    /\ \A c \in Calls : WF_vars(approveTransaction_config(c))
    /\ \A c \in Calls : WF_vars(approveTransaction_signFailed(c) \/ approveTransaction_signed(c))
    /\ \A c \in Calls : WF_vars(approveTransaction_publishFailed(c) \/ approveTransaction_published(c))

SpecSubmitFair == SpecSubmit /\ SubmitFairness

\* -------------------------------------------------- the nonce lock alone
\* getNonceLock and the release function it hands out, used by callers that keep
\* the release function and may call it again (getPendingNonce and getNextNonce
\* of the main controller call it once).
FreeClients == {c \in Clients : clients[c].pc = "idle"}

\* getNonceLock(address): the caller queues for the mutex of the address
getNonceLock(c, address) ==
    /\ clients[c].pc = "idle"
    /\ Len(handles) + Cardinality({d \in Clients : clients[d].pc = "waiting"}) < MaxHandles
    /\ clients' = [clients EXCEPT ![c] = [pc |-> "waiting", address |-> address,
                                          token |-> 0]]
    /\ lockQueue' = [lockQueue EXCEPT ![address] = Append(@, c)]
    /\ UNCHANGED <<txs, inProcessOfSigning, calls, lockHolder, netNonce, returned, handles>>
    /\ UNCHANGED <<gasVars, intakeVars>>
    /\ UNCHANGED trackerVars

\* the mutex is granted: the caller holds the lock and its release function
getNonceLock_resolve(c) ==
    LET a == clients[c].address
        token == Len(handles) + 1
    IN
    /\ clients[c].pc = "waiting"
    /\ LockFree(lockHolder, a) /\ Head(lockQueue[a]) = c
    /\ lockQueue' = [lockQueue EXCEPT ![a] = Tail(@)]
    /\ lockHolder' = [lockHolder EXCEPT ![a] = token]
    /\ handles' = Append(handles, [address |-> a, released |-> 0])
    /\ clients' = [clients EXCEPT ![c].pc = "holding", ![c].token = token]
    /\ UNCHANGED <<txs, inProcessOfSigning, calls, netNonce, returned>>
    /\ UNCHANGED <<gasVars, intakeVars>>
    /\ UNCHANGED trackerVars

\* a release function is called, for the first time or again
releaseLock_call(token) ==
    LET a == handles[token].address IN
    /\ token \in 1..Len(handles)
    /\ handles[token].released < MaxReleases
    /\ lockHolder' = ReleaseOnce(lockHolder, a, token)
    /\ handles' = [handles EXCEPT ![token].released = @ + 1]
    /\ clients' = [c \in Clients |->
                      IF clients[c].pc = "holding" /\ clients[c].token = token
                      THEN IdleClient ELSE clients[c]]
    /\ UNCHANGED <<txs, inProcessOfSigning, calls, lockQueue, netNonce, returned>>
    /\ UNCHANGED <<gasVars, intakeVars>>
    /\ UNCHANGED trackerVars

NextLock ==
    \/ \E c \in Clients, a \in Addresses : getNonceLock(c, a)
    \/ \E c \in Clients : getNonceLock_resolve(c)
    \/ \E token \in 1..MaxHandles : releaseLock_call(token)

SpecLock == Init /\ [][NextLock]_vars

\* ------------------------------------------------- blocks and tracker passes
\* The block tracker announces blocks; every registration of latestBlockHandler runs
\* _onLatestBlock, which awaits updatePendingTxs and then resubmitPendingTxs.  The
\* tracker emits tx:confirmed, tx:dropped and tx:failed while updatePendingTxs runs.
\* SpecBlocks starts from a persisted store and runs the constructor.

\* a tracker that starts a pass whenever it is asked to
TrackerFree_Always(p) == TRUE

\* the tracker runs one pass at a time: a pass asked for while another runs waits
TrackerFree(p) == \A h \in DOMAIN p : ~p[h].running

IdlePasses == {h \in Passes : passes[h].pc = "idle"}

\* the first n idle slots
FirstIdle(n) == {h \in IdlePasses : Cardinality({g \in IdlePasses : g < h}) < n}

\* an updatePendingTxs pass is in progress
UpdateRunning == \E h \in Passes : passes[h].pc = "update" /\ passes[h].running

\* the block tracker emits 'latest': _onLatestBlock(blockNumber) is invoked once per
\* registration and calls updatePendingTxs (line 1307)
_onLatestBlock ==
    /\ booted
    /\ latestBlock < MaxBlocks
    /\ Cardinality(IdlePasses) >= latestListeners
    /\ latestBlock' = latestBlock + 1
    /\ passes' = [h \in Passes |->
                     IF h \in FirstIdle(latestListeners)
                     THEN [IdlePass EXCEPT !.pc = "update", !.block = latestBlock + 1]
                     ELSE passes[h]]
    /\ returned' = NoReturn
    /\ UNCHANGED <<txs, approvalVars, logged, listenersAreActive, latestListeners>>
    /\ UNCHANGED <<gasVars, intakeVars, lockVars>>

\* lines 1092-1094: getLatestBlock resolves, the start-up pass calls updatePendingTxs
_updatePendingTxsAfterFirstBlock(h) ==
    /\ passes[h].pc = "firstBlock"
    /\ latestBlock >= 1
    /\ passes' = [passes EXCEPT ![h].pc = "update", ![h].block = latestBlock]
    /\ returned' = NoReturn
    /\ UNCHANGED <<txs, approvalVars, latestBlock, logged, listenersAreActive,
                   latestListeners>>
    /\ UNCHANGED <<gasVars, intakeVars, lockVars>>

\* the tracker starts the pass a caller waits for (updatePendingTxs or
\* resubmitPendingTxs)
trackerPass(h) ==
    /\ passes[h].pc \in {"update", "resubmit"}
    /\ ~passes[h].running
    /\ TrackerFree(passes)
    /\ passes' = [passes EXCEPT ![h].running = TRUE]
    /\ returned' = NoReturn
    /\ UNCHANGED <<txs, approvalVars, latestBlock, logged, listenersAreActive,
                   latestListeners>>
    /\ UNCHANGED <<gasVars, intakeVars, lockVars>>

\* an _onLatestBlock whose first catch ends the handler
AfterUpdate_Uncaught(pass) == IdlePass

\* lines 1306-1311: whether updatePendingTxs resolved or threw, _onLatestBlock goes on
\* to resubmitPendingTxs(blockNumber); the start-up pass ends (line 1094)
AfterUpdate(pass) ==
    IF pass.startup THEN IdlePass
    ELSE [pass EXCEPT !.pc = "resubmit", !.running = FALSE]

\* updatePendingTxs resolves
updatePendingTxs_resolve(h) ==
    /\ passes[h].pc = "update" /\ passes[h].running
    /\ passes' = [passes EXCEPT ![h] = AfterUpdate(@)]
    /\ returned' = NoReturn
    /\ UNCHANGED <<txs, approvalVars, latestBlock, logged, listenersAreActive,
                   latestListeners>>
    /\ UNCHANGED <<gasVars, intakeVars, lockVars>>

\* updatePendingTxs rejects: _onLatestBlock logs the error (lines 1308-1310); the
\* start-up pass has no handler for it
updatePendingTxs_reject(h) ==
    /\ passes[h].pc = "update" /\ passes[h].running
    /\ passes[h].startup \/ logged < MaxLogged
    /\ passes' = [passes EXCEPT ![h] = AfterUpdate(@)]
    /\ logged' = IF passes[h].startup THEN logged ELSE logged + 1
    /\ returned' = NoReturn
    /\ UNCHANGED <<txs, approvalVars, latestBlock, listenersAreActive, latestListeners>>
    /\ UNCHANGED <<gasVars, intakeVars, lockVars>>

\* resubmitPendingTxs resolves
resubmitPendingTxs_resolve(h) ==
    /\ passes[h].pc = "resubmit" /\ passes[h].running
    /\ passes' = [passes EXCEPT ![h] = IdlePass]
    /\ returned' = NoReturn
    /\ UNCHANGED <<txs, approvalVars, latestBlock, logged, listenersAreActive,
                   latestListeners>>
    /\ UNCHANGED <<gasVars, intakeVars, lockVars>>

\* resubmitPendingTxs rejects: the error is logged (lines 1313-1315)
resubmitPendingTxs_reject(h) ==
    /\ passes[h].pc = "resubmit" /\ passes[h].running
    /\ logged < MaxLogged
    /\ passes' = [passes EXCEPT ![h] = IdlePass]
    /\ logged' = logged + 1
    /\ returned' = NoReturn
    /\ UNCHANGED <<txs, approvalVars, latestBlock, listenersAreActive, latestListeners>>
    /\ UNCHANGED <<gasVars, intakeVars, lockVars>>

NextBlocks ==
    \/ constructor
    \/ _onLatestBlock
    \/ \E h \in Passes : _updatePendingTxsAfterFirstBlock(h)
    \/ \E h \in Passes : trackerPass(h)
    \/ \E h \in Passes : updatePendingTxs_resolve(h)
    \/ \E h \in Passes : updatePendingTxs_reject(h)
    \/ \E h \in Passes : resubmitPendingTxs_resolve(h)
    \/ \E h \in Passes : resubmitPendingTxs_reject(h)
    \/ \E id \in 1..Len(txs), txReceipt \in Receipts :
          UpdateRunning /\ confirmTransaction(id, txReceipt)
    \/ \E id \in 1..Len(txs) : UpdateRunning /\ trackerDropped(id)
    \/ \E id \in 1..Len(txs) : UpdateRunning /\ trackerFailed(id)
    \/ \E a \in Addresses : booted /\ ExternalTx(a)

SpecBlocks == IntakeInit /\ [][NextBlocks]_vars

\* ------------------------------------------------------- fee pipeline
\* One record taken through addTxGasDefaults and then through a cancel or a
\* speed-up, for every combination of caller-supplied fee fields, fee-estimate
\* answer, fee-market support and override.
FeeValues == {Undefined, 10, 15}

GasDrafts ==
    {generateTxMeta("A", "B", 1, data, gas, gasPrice, maxFee, maxPrio, "unapproved", type) :
        data \in BOOLEAN, gas \in {Undefined, 30000}, gasPrice \in FeeValues,
        maxFee \in FeeValues, maxPrio \in FeeValues,
        type \in {"sentEther", "contractInteraction"}}

\* the answers of the fee source: suggestions and prices are decimal GWEI amounts
GasEnvs ==
    {Env(eip1559, kind[1],
         IF kind = <<"fee-market", TRUE>> THEN 1 ELSE Undefined,
         IF kind = <<"fee-market", TRUE>> THEN 1 ELSE Undefined,
         IF kind[1] = "legacy" THEN 1 ELSE Undefined,
         IF kind[1] = "eth_gasPrice" THEN 1 ELSE Undefined,
         chainType) :
        eip1559 \in BOOLEAN, chainType \in {"mainnet", "custom"},
        kind \in {<<"fee-market", TRUE>>, <<"fee-market", FALSE>>, <<"legacy", TRUE>>,
                  <<"eth_gasPrice", TRUE>>, <<"none", TRUE>>, <<"throws", TRUE>>}}

\* the customGasSettings argument: absent, empty, or overriding some fields
GasCustoms ==
    {NoCustomGas,
     [NoCustomGas EXCEPT !.given = FALSE],
     [NoCustomGas EXCEPT !.gasPrice = 20],
     [NoCustomGas EXCEPT !.maxFeePerGas = 20, !.maxPriorityFeePerGas = 12],
     [NoCustomGas EXCEPT !.gasLimit = 40000, !.gas = 40000]}

GasInit ==
    /\ LifeIdle /\ IntakeIdle /\ LockIdle /\ TrackerIdle
    /\ gasDraft \in GasDrafts
    /\ gasEnv \in GasEnvs
    /\ gasTx = NoGasTx
    /\ gasPc = "draft"
    /\ gasNew = NoGasTx
    /\ gasCustom = NoCustomGas

\* addTxGasDefaults resolves on the draft
GasDefaults ==
    /\ gasPc = "draft"
    /\ ~GasLimitThrows(gasDraft, gasEnv)
    /\ gasTx' = addTxGasDefaults(gasDraft, gasEnv)
    /\ gasPc' = "defaulted"
    /\ UNCHANGED <<gasDraft, gasEnv, gasNew, gasCustom>>
    /\ UNCHANGED <<lifeVars, intakeVars, lockVars>>
    /\ UNCHANGED trackerVars

\* addTxGasDefaults rejects: _getDefaultGasLimit threw
GasDefaultsThrow ==
    /\ gasPc = "draft"
    /\ GasLimitThrows(gasDraft, gasEnv)
    /\ gasPc' = "threw"
    /\ UNCHANGED <<gasDraft, gasTx, gasEnv, gasNew, gasCustom>>
    /\ UNCHANGED <<lifeVars, intakeVars, lockVars>>
    /\ UNCHANGED trackerVars

\* createSpeedUpTransaction builds the replacement of the defaulted record
GasSpeedUp(custom) ==
    /\ gasPc = "defaulted"
    /\ ~GenerateThrows(gasTx, custom)
    /\ gasNew' = SpeedUpMeta(gasTx, 1, custom)
    /\ gasCustom' = custom
    /\ gasPc' = "speedUp"
    /\ UNCHANGED <<gasDraft, gasTx, gasEnv>>
    /\ UNCHANGED <<lifeVars, intakeVars, lockVars>>
    /\ UNCHANGED trackerVars

\* createCancelTransaction builds the replacement of the defaulted record
GasCancel(custom) ==
    /\ gasPc = "defaulted"
    /\ gasCustom' = custom
    /\ IF CancelThrows(gasTx, custom)
       THEN gasPc' = "cancelThrew" /\ UNCHANGED gasNew
       ELSE gasPc' = "cancel" /\ gasNew' = CancelMeta(gasTx, 1, custom)
    /\ UNCHANGED <<gasDraft, gasTx, gasEnv>>
    /\ UNCHANGED <<lifeVars, intakeVars, lockVars>>
    /\ UNCHANGED trackerVars

NextGas ==
    \/ GasDefaults
    \/ GasDefaultsThrow
    \/ \E custom \in GasCustoms : GasSpeedUp(custom)
    \/ \E custom \in GasCustoms : GasCancel(custom)

SpecGas == GasInit /\ [][NextGas]_vars

\* ============================================================ properties
\* statuses under which a signed transaction of the record is still in play
Live == {"signed", "submitted", "confirmed"}

\* errors of the three suspensions of approveTransaction
ApprovalErrors == {"NonceError", "SignError", "BroadcastError"}

\* C1 as stated: no two signed transactions of records sharing a sender carry the
\* same nonce.
C1_NoSharedSignedNonce ==
    \A i, j \in 1..Len(txs) :
        (i # j /\ txs[i].from = txs[j].from
             /\ txs[i].signedNonce # NoNonce /\ txs[j].signedNonce # NoNonce)
        => txs[i].signedNonce # txs[j].signedNonce

\* C1 amended: two records of one sender that are neither replacements nor given a
\* custom nonce, and whose signed transactions are both still in play (signed,
\* submitted or confirmed), never carry the same nonce.
C1_FreshNoncesDistinct ==
    \A i, j \in 1..Len(txs) :
        (i # j /\ txs[i].from = txs[j].from
             /\ txs[i].status \in Live /\ txs[j].status \in Live
             /\ ~txs[i].previousGasParams.has /\ ~txs[j].previousGasParams.has
             /\ txs[i].customNonceValue = Undefined
             /\ txs[j].customNonceValue = Undefined)
        => /\ txs[i].nonce # txs[j].nonce
           /\ txs[i].signedNonce # txs[j].signedNonce

\* two fresh records of one sender were both signed and sent, with nonces 0 and 1
C1_Witness ==
    \E i, j \in 1..Len(txs) :
        /\ i # j /\ txs[i].from = txs[j].from
        /\ txs[i].status = "submitted" /\ txs[j].status = "submitted"
        /\ ~txs[i].previousGasParams.has /\ ~txs[j].previousGasParams.has
        /\ txs[i].customNonceValue = Undefined /\ txs[j].customNonceValue = Undefined
        /\ txs[i].sentNonce = "0x0" /\ txs[j].sentNonce = "0x1"

C3_Coalesced ==
    /\ [][returned'.result = "noop"
          => UNCHANGED <<txs, inProcessOfSigning, calls, lockHolder, lockQueue,
                         netNonce>>]_vars
    /\ [](\A c, d \in Calls :
            (c # d /\ calls[c].pc \in InFlight /\ calls[d].pc \in InFlight)
            => calls[c].txId # calls[d].txId)

\* a second call came back as a no-op while the first is still under way
C3_Witness ==
    /\ returned.result = "noop"
    /\ \E c \in Calls : calls[c].pc \in InFlight /\ calls[c].txId = returned.txId

C8_ReplacementReusesNonce ==
    \A i \in 1..Len(txs) :
        txs[i].originalTxId # 0
        => /\ txs[i].signedNonce \in {NoNonce, txs[txs[i].originalTxId].nonce}
           /\ txs[i].sentNonce \in {NoNonce, txs[txs[i].originalTxId].nonce}

\* a replacement was sent with the original's nonce while the allocator would
\* have handed out another one
C8_Witness ==
    \E i \in 1..Len(txs) :
        /\ txs[i].originalTxId # 0
        /\ txs[i].status = "submitted"
        /\ txs[i].sentNonce = txs[txs[i].originalTxId].nonce
        /\ txs[i].signedNonce = txs[i].sentNonce
        /\ numberToHex(nextNonce(txs, txs[i].from, netNonce[txs[i].from]))
              # txs[i].sentNonce

\* C9: the step that confirms record T leaves every other record with T's sender
\* and nonce that was not terminal with status dropped and replacedBy = T.hash.
C9_DuplicatesDropped ==
    [][\A T \in 1..Len(txs) :
          (txs[T].status # "confirmed" /\ txs'[T].status = "confirmed")
          => \A i \in SameNonceTxs(txs, T) :
                txs[i].status \notin Terminal
                => /\ txs'[i].status = "dropped"
                   /\ txs'[i].replacedBy = txs'[T].hash]_vars

\* a speed-up or cancel T2 of T1 confirmed: T1 is dropped with replacedBy = T2.hash
C9_Witness ==
    \E T1, T2 \in 1..Len(txs) :
        /\ txs[T2].originalTxId = T1
        /\ txs[T2].status = "confirmed"
        /\ txs[T1].status = "dropped"
        /\ txs[T1].replacedBy = txs[T2].hash /\ txs[T2].hash # 0
        /\ txs[T1].nonce = txs[T2].nonce

\* ------------------------------------------------- fee pipeline properties
\* C7: after addTxGasDefaults the record holds exactly one fee shape: gasPrice
\* alone, or maxFeePerGas and maxPriorityFeePerGas without gasPrice.
C7_OneFeeShape ==
    gasPc = "defaulted"
    => \/ /\ gasTx.gasPrice # Undefined
          /\ gasTx.maxFeePerGas = Undefined /\ gasTx.maxPriorityFeePerGas = Undefined
       \/ /\ gasTx.gasPrice = Undefined
          /\ gasTx.maxFeePerGas # Undefined /\ gasTx.maxPriorityFeePerGas # Undefined

\* a caller gave all three fee fields on a fee-market network: the legacy one is gone
C7_Witness ==
    /\ gasPc = "defaulted"
    /\ gasEnv.eip1559
    /\ gasDraft.gasPrice = 10 /\ gasDraft.maxFeePerGas = 15
    /\ gasDraft.maxPriorityFeePerGas = 10
    /\ gasTx.gasPrice = Undefined
    /\ gasTx.maxFeePerGas = 15 /\ gasTx.maxPriorityFeePerGas = 10

\* the replacement was built without a fee override
NoFeeOverride ==
    /\ gasPc \in {"speedUp", "cancel"}
    /\ gasCustom.gasPrice = Undefined
    /\ gasCustom.maxFeePerGas = Undefined
    /\ gasCustom.maxPriorityFeePerGas = Undefined

Unacceptable(r) ==
    \/ r.draft.from \notin Addresses
    \/ r.origin = "metamask" /\ r.draft.from # SelectedAddress
    \/ r.origin # "metamask" /\ r.draft.from \notin PermittedAccounts(r.origin)

ValidationErrors == {"InvalidParams", "UnauthorizedSender", "UnauthorizedOrigin"}

\* C11: a request that is malformed, or whose wallet-internal sender is not the
\* selected account, or whose external origin has no permission for the sender, is
\* thrown back with no record added and no newUnapprovedTx event emitted: every step
\* that adds a record or emits the event belongs to a call whose request is none of
\* these, and the call for such a request ends in the validation error with the
\* store and the events as they were.
C11_RejectedNeverStored ==
    /\ [][/\ (Len(txs') # Len(txs) \/ events' # events)
             => \E k \in Intakes :
                   /\ ~Unacceptable(intake[k])
                   /\ intake[k].pc = "classify" /\ intake'[k].pc = "defaults"
                   /\ intake'[k].id = Len(txs')
          /\ \A k \in Intakes :
                (intake[k].pc # "idle" /\ intake'[k].pc = "idle"
                    /\ Unacceptable(intake[k]))
                => /\ returned'.result \in ValidationErrors
                   /\ returned'.txId = 0
                   /\ txs' = txs /\ events' = events]_vars
    /\ [](\A k \in Intakes :
            (intake[k].pc # "idle" /\ Unacceptable(intake[k]))
            => /\ intake[k].id = 0
               /\ intake[k].pc \in {"validate", "permissions"})

\* an external request without permission for its sender was just thrown back, and
\* nothing was added or emitted since the start
C11_Witness ==
    /\ booted
    /\ returned.result = "UnauthorizedOrigin"
    /\ events = <<>>
    /\ txs = <<>>

C14_RestartCleanUp ==
    /\ [][(~booted /\ booted')
          => \A i \in 1..Len(txs) :
                /\ txs[i].status = "approved"
                   => txs'[i] = [txs[i] EXCEPT !.status = "failed", !.err = "BootError"]
                /\ (txs[i].status = "unapproved" /\ txs[i].loadingDefaults)
                   => jobs'[i] = jobs[i] + 1
                /\ txs[i].status # "approved" => txs'[i] = txs[i]]_vars
    /\ [](booted => \A i \in 1..Len(txs) :
            /\ ~(txs[i].status = "approved")
            /\ (txs[i].status = "unapproved" /\ txs[i].loadingDefaults)
               => \/ jobs[i] > 0
                  \/ \E k \in Intakes : intake[k].pc = "defaults" /\ intake[k].id = i)

\* after a restart: the record found approved is failed and was never signed, the
\* record found loading has its defaulting step started again
C14_Witness ==
    /\ booted
    /\ \E i, j \in 1..Len(txs) :
          /\ txs[i].status = "failed" /\ txs[i].err = "BootError"
          /\ ~txs[i].rawTx /\ txs[i].signedNonce = NoNonce /\ txs[i].sentNonce = NoNonce
          /\ txs[j].status = "unapproved" /\ txs[j].loadingDefaults /\ jobs[j] = 1
    /\ \A k \in Intakes : intake[k].pc = "idle"

\* ---------------------------------------------------- lifecycle properties
\* C15 as stated: for each (sender, nonce) pair at most one record is in a status
\* other than confirmed, failed, dropped or rejected.
C15_OneLivePerNonce ==
    \A i, j \in 1..Len(txs) :
        (i # j /\ txs[i].from = txs[j].from
             /\ txs[i].nonce # NoNonce /\ txs[i].nonce = txs[j].nonce)
        => (txs[i].status \in Terminal \/ txs[j].status \in Terminal)

\* C15 amended: for each (sender, nonce) pair at most one record that is neither a
\* cancel/speed-up replacement nor given a custom nonce is in a status other than
\* confirmed, failed, dropped or rejected.
C15_OneFreshLivePerNonce ==
    \A i, j \in 1..Len(txs) :
        (i # j /\ txs[i].from = txs[j].from
             /\ txs[i].nonce # NoNonce /\ txs[i].nonce = txs[j].nonce
             /\ ~txs[i].previousGasParams.has /\ ~txs[j].previousGasParams.has
             /\ txs[i].customNonceValue = Undefined
             /\ txs[j].customNonceValue = Undefined)
        => (txs[i].status \in Terminal \/ txs[j].status \in Terminal)

\* two fresh records of one sender are both under way, one broadcast with the
\* first nonce and one approved with the next
C15_Witness ==
    \E i, j \in 1..Len(txs) :
        /\ i # j /\ txs[i].from = txs[j].from
        /\ ~txs[i].previousGasParams.has /\ ~txs[j].previousGasParams.has
        /\ txs[i].customNonceValue = Undefined /\ txs[j].customNonceValue = Undefined
        /\ txs[i].status = "submitted" /\ txs[i].nonce = "0x0"
        /\ txs[j].status = "approved" /\ txs[j].nonce = "0x1"

\* calls of approveTransaction that hold the nonce lock of address a
LockHolders(a) ==
    {c \in Calls : calls[c].pc \in {"config", "signing", "publishing"}
                   /\ txs[calls[c].txId].from = a}

\* C16: while an approval holds the nonce lock of its sender no other approval of
\* that sender gets past the nonce acquisition, and an approval waiting first in
\* line for a sender whose lock is free can take its nonce whatever the state of
\* the other senders' locks.
C16_LockPerAddress ==
    /\ \A a \in Addresses :
          /\ Cardinality(LockHolders(a)) <= 1
          /\ \A c \in LockHolders(a) : lockHolder[a] = c
    /\ \A d \in Calls :
          (calls[d].pc = "waitLock"
             /\ lockHolder[txs[calls[d].txId].from] = 0
             /\ Head(lockQueue[txs[calls[d].txId].from]) = d)
          => ENABLED approveTransaction_nonce(d)

\* the signer of A's approval has not answered and A's lock is held, while B's
\* approval has just come back with its record submitted
C16_Witness ==
    /\ \E c \in Calls : calls[c].pc = "signing" /\ lockHolder["A"] = c
    /\ returned.result = "ok"
    /\ txs[returned.txId].from = "B"
    /\ txs[returned.txId].status = "submitted"
    /\ lockHolder["B"] = 0

C13_CallerValuesKept ==
    gasPc = "defaulted"
    => /\ gasDraft.gas # Undefined => gasTx.gas = gasDraft.gas
       /\ (~gasEnv.eip1559 /\ gasDraft.gasPrice # Undefined)
          => gasTx.gasPrice = gasDraft.gasPrice
       /\ (gasEnv.eip1559 /\ gasDraft.maxFeePerGas # Undefined)
          => gasTx.maxFeePerGas = gasDraft.maxFeePerGas
       /\ (gasEnv.eip1559 /\ gasDraft.maxPriorityFeePerGas # Undefined)
          => gasTx.maxPriorityFeePerGas = gasDraft.maxPriorityFeePerGas

\* the caller gave a gas limit and maxFeePerGas; the estimate filled the priority
\* fee only
C13_Witness ==
    /\ gasPc = "defaulted"
    /\ gasEnv.eip1559 /\ gasEnv.estimateType = "fee-market"
    /\ gasEnv.suggestedMaxFeePerGas = 1
    /\ gasDraft.gas = 30000 /\ gasDraft.maxFeePerGas = 15
    /\ gasDraft.maxPriorityFeePerGas = Undefined
    /\ gasTx.gas = 30000 /\ gasTx.maxFeePerGas = 15
    /\ gasTx.maxPriorityFeePerGas = decGWEIToHexWEI(1)

\* a request without gas fields and data, to an address without code, defaulted on
\* a legacy network whose fee source answers with legacy estimates
SimpleSend ==
    /\ gasPc = "defaulted"
    /\ ~gasEnv.eip1559 /\ gasEnv.estimateType = "legacy"
    /\ gasDraft.gas = Undefined /\ gasDraft.gasPrice = Undefined
    /\ gasDraft.maxFeePerGas = Undefined /\ gasDraft.maxPriorityFeePerGas = Undefined
    /\ ~gasDraft.data /\ gasDraft.type = "sentEther"

\* the gas limit of a plain transfer, the medium estimate as price, no fee-market field
SimpleSendDefaults ==
    /\ gasTx.gas = GAS_LIMITS_SIMPLE
    /\ gasTx.gasPrice = decGWEIToHexWEI(gasEnv.medium)
    /\ gasTx.maxFeePerGas = Undefined /\ gasTx.maxPriorityFeePerGas = Undefined

\* C19 as stated: on a network without fee-market support a request without gas
\* fields whose target has no code is defaulted to gas limit 21000 and gasPrice =
\* the medium estimate, without fee-market fields.
C19_SimpleSend == SimpleSend => SimpleSendDefaults

\* C19 amended: the same on a network that is not a custom network; on a custom
\* network the gas limit is the buffered estimate of the node.
C19_SimpleSendBuiltIn ==
    SimpleSend
    => IF gasEnv.chainType # "custom" THEN SimpleSendDefaults
       ELSE /\ gasTx.gas = gasEnv.bufferedGasLimit
            /\ gasTx.gasPrice = decGWEIToHexWEI(gasEnv.medium)
            /\ gasTx.maxFeePerGas = Undefined /\ gasTx.maxPriorityFeePerGas = Undefined

\* a simple send on mainnet: 21000 gas at the medium estimate of 1 GWEI
C19_Witness ==
    /\ SimpleSend
    /\ gasEnv.chainType = "mainnet" /\ gasEnv.medium = 1
    /\ gasTx.gas = 21000 /\ gasTx.gasPrice = 1000000000

\* C20: on a fee-market network a request carrying gasPrice and neither fee-market
\* field ends defaulting with maxFeePerGas = maxPriorityFeePerGas = that gasPrice,
\* fee level custom and no gasPrice.
C20_GasPriceCopied ==
    (/\ gasPc = "defaulted" /\ gasEnv.eip1559
     /\ gasDraft.gasPrice # Undefined
     /\ gasDraft.maxFeePerGas = Undefined /\ gasDraft.maxPriorityFeePerGas = Undefined)
    => /\ gasTx.maxFeePerGas = gasDraft.gasPrice
       /\ gasTx.maxPriorityFeePerGas = gasDraft.gasPrice
       /\ gasTx.userFeeLevel = "custom"
       /\ gasTx.gasPrice = Undefined

\* a gasPrice of 15 on a fee-market network whose estimates would have been 1 GWEI
C20_Witness ==
    /\ gasPc = "defaulted" /\ gasEnv.eip1559
    /\ gasEnv.estimateType = "fee-market" /\ gasEnv.suggestedMaxFeePerGas = 1
    /\ gasDraft.gasPrice = 15
    /\ gasDraft.maxFeePerGas = Undefined /\ gasDraft.maxPriorityFeePerGas = Undefined
    /\ gasTx.maxFeePerGas = 15 /\ gasTx.maxPriorityFeePerGas = 15
    /\ gasTx.userFeeLevel = "custom" /\ gasTx.gasPrice = Undefined

\* the record was defaulted on a fee-market network and the caller had not given
\* gasPrice alone
FeeMarketFill ==
    /\ gasPc = "defaulted" /\ gasEnv.eip1559
    /\ ~(/\ gasDraft.gasPrice # Undefined
          /\ gasDraft.maxFeePerGas = Undefined
          /\ gasDraft.maxPriorityFeePerGas = Undefined)

\* the fee source answered with medium-tier suggestions for both fee-market fields
MediumSuggested ==
    /\ gasEnv.estimateType = "fee-market"
    /\ gasEnv.suggestedMaxFeePerGas # Undefined
    /\ gasEnv.suggestedMaxPriorityFeePerGas # Undefined

\* the single price the fee source or the node offers when there are no suggestions
OfferedGasPrice ==
    IF gasEnv.estimateType = "legacy" THEN decGWEIToHexWEI(gasEnv.medium)
    ELSE IF gasEnv.estimateType = "eth_gasPrice" THEN decGWEIToHexWEI(gasEnv.estGasPrice)
    ELSE gasEnv.nodeGasPrice

\* C21 as stated: each fee-market field is the caller's value, else the medium
\* estimate of that field, else the value of the sibling field.
C21_SiblingFallback ==
    FeeMarketFill
    => /\ gasTx.maxFeePerGas =
             IF gasDraft.maxFeePerGas # Undefined THEN gasDraft.maxFeePerGas
             ELSE IF MediumSuggested THEN decGWEIToHexWEI(gasEnv.suggestedMaxFeePerGas)
             ELSE gasTx.maxPriorityFeePerGas
       /\ gasTx.maxPriorityFeePerGas =
             IF gasDraft.maxPriorityFeePerGas # Undefined
             THEN gasDraft.maxPriorityFeePerGas
             ELSE IF MediumSuggested
             THEN decGWEIToHexWEI(gasEnv.suggestedMaxPriorityFeePerGas)
             ELSE gasTx.maxFeePerGas

\* C21 amended: maxFeePerGas is the caller's value, else the medium estimate of the
\* field, else the single gas price the fee source or the node offers;
\* maxPriorityFeePerGas is the caller's value, else the medium estimate of the
\* field, else the resulting maxFeePerGas.
C21_FeeMarketPrecedence ==
    FeeMarketFill
    => /\ gasTx.maxFeePerGas =
             IF gasDraft.maxFeePerGas # Undefined THEN gasDraft.maxFeePerGas
             ELSE IF MediumSuggested THEN decGWEIToHexWEI(gasEnv.suggestedMaxFeePerGas)
             ELSE OfferedGasPrice
       /\ gasTx.maxPriorityFeePerGas =
             IF gasDraft.maxPriorityFeePerGas # Undefined
             THEN gasDraft.maxPriorityFeePerGas
             ELSE IF MediumSuggested
             THEN decGWEIToHexWEI(gasEnv.suggestedMaxPriorityFeePerGas)
             ELSE gasTx.maxFeePerGas

\* the caller gave maxFeePerGas only and the fee source has legacy estimates: the
\* priority fee is the caller's maxFeePerGas
C21_Witness ==
    /\ FeeMarketFill
    /\ gasEnv.estimateType = "legacy" /\ gasEnv.medium = 1
    /\ gasDraft.maxFeePerGas = 15 /\ gasDraft.maxPriorityFeePerGas = Undefined
    /\ gasTx.maxFeePerGas = 15 /\ gasTx.maxPriorityFeePerGas = 15

\* the payload of a speed-up: recipient, value and call data of the original
SpeedUpPayload ==
    gasPc = "speedUp"
    => /\ gasNew.from = gasTx.from /\ gasNew.to = gasTx.to
       /\ gasNew.value = gasTx.value /\ gasNew.data = gasTx.data

\* C22 as stated: a cancel record is a transfer of value 0 from the original sender
\* to that sender, without call data and with gas limit 21000; a speed-up record
\* has the original's recipient, value and call data.
C22_PayloadByKind ==
    /\ gasPc = "cancel"
       => /\ gasNew.from = gasTx.from /\ gasNew.to = gasTx.from
          /\ gasNew.value = 0 /\ ~gasNew.data
          /\ gasNew.gas = GAS_LIMITS_SIMPLE
    /\ SpeedUpPayload

\* C22 amended: the same, with the gas limit of a cancel record being the gas value
\* of the custom gas settings when they carry one and 21000 otherwise.
C22_PayloadByKindOrCustomGas ==
    /\ gasPc = "cancel"
       => /\ gasNew.from = gasTx.from /\ gasNew.to = gasTx.from
          /\ gasNew.value = 0 /\ ~gasNew.data
          /\ gasNew.gas = IF gasCustom.gas # Undefined THEN gasCustom.gas
                          ELSE GAS_LIMITS_SIMPLE
    /\ SpeedUpPayload

\* the cancel of a contract call that carried data, value 1 and gas limit 30000 is
\* a plain transfer of nothing to the sender with gas limit 21000
C22_Witness ==
    /\ gasPc = "cancel"
    /\ gasTx.data /\ gasTx.to = "B" /\ gasTx.value = 1 /\ gasTx.gas = 30000
    /\ gasNew.from = "A" /\ gasNew.to = "A" /\ gasNew.value = 0 /\ ~gasNew.data
    /\ gasNew.gas = 21000 /\ gasNew.type = "cancel"

\* the fee fields of p are those of the shape of the original record tx and no other
OneShapeOf(tx, p) ==
    IF isEIP1559Transaction(tx)
    THEN /\ p.gasPrice = Undefined
         /\ p.maxFeePerGas # Undefined /\ p.maxPriorityFeePerGas # Undefined
    ELSE /\ p.gasPrice # Undefined
         /\ p.maxFeePerGas = Undefined /\ p.maxPriorityFeePerGas = Undefined

\* p holds the fee fields of tx of the shape of tx, and no other fee field
SnapshotOf(tx, p) ==
    IF isEIP1559Transaction(tx)
    THEN /\ p.gasPrice = Undefined
         /\ p.maxFeePerGas = tx.maxFeePerGas
         /\ p.maxPriorityFeePerGas = tx.maxPriorityFeePerGas
    ELSE /\ p.gasPrice = tx.gasPrice
         /\ p.maxFeePerGas = Undefined /\ p.maxPriorityFeePerGas = Undefined

C29_SubmittedHasNonceRawTxHash ==
    /\ \A i \in 1..Len(txs) :
          txs[i].status = "submitted" =>
              /\ txs[i].nonce # NoNonce
              /\ txs[i].rawTx
              /\ txs[i].hash # 0
    /\ returned.result \in {"ok", "InvalidTransition"} /\ returned.txId # 0
          /\ txs[returned.txId].rawTx
          => txs[returned.txId].hash # 0

\* a call of approveTransaction just returned and left its record submitted
C29_Witness ==
    /\ returned.result = "ok"
    /\ txs[returned.txId].status = "submitted"
    /\ txs[returned.txId].hash # 0
    /\ txs[returned.txId].previousGasParams.has

\* C26: every confirmed record carries its receipt, and the step that moves a record
\* to confirmed is the step that attaches the receipt: no step leaves a record
\* confirmed without receipt, however the other operations interleave
C26_ConfirmedWithReceipt ==
    /\ [](\A i \in 1..Len(txs) : txs[i].status = "confirmed" => txs[i].txReceipt)
    /\ [][\A i \in 1..Len(txs) :
            txs'[i].status = "confirmed" /\ txs[i].status # "confirmed"
                => txs'[i].txReceipt /\ ~txs[i].txReceipt]_vars

\* a record was confirmed with its receipt while another record is still submitted
C26_Witness ==
    \E i, j \in 1..Len(txs) :
        /\ txs[i].status = "confirmed" /\ txs[i].txReceipt
        /\ txs[j].status = "submitted" /\ ~txs[j].txReceipt

\* C28: the signer and the broadcaster are invoked only for a record whose status is
\* approved or signed: a record rejected or failed while approveTransaction was
\* suspended is not handed to the signer or to the broadcaster afterwards
C28_NoSignAfterRejectOrFail ==
    [][\A c \in Calls :
          /\ calls[c].pc = "config" /\ calls'[c].pc = "signing"
                => txs[calls[c].txId].status \in {"approved", "signed"}
          /\ calls[c].pc = "signing" /\ calls'[c].pc = "publishing"
                => txs'[calls[c].txId].status \in {"approved", "signed"}]_vars

\* C30: in every state the new-block handler is registered on the block tracker once
\* when some record is submitted and not at all when none is, and the flag of the
\* subscription says so: it is never registered twice
C30_HandlerRegisteredOnce ==
    /\ latestListeners = IF getPendingTransactions(txs) # {} THEN 1 ELSE 0
    /\ listenersAreActive <=> latestListeners = 1

\* status updates went on while the handler was registered: two records were
\* submitted, one of them has since been confirmed, the handler is registered once
C30_Witness ==
    /\ latestListeners = 1
    /\ \E i, j \in 1..Len(txs) :
          /\ txs[i].status = "confirmed"
          /\ txs[j].status = "submitted"

\* C27: the step in which the confirmation pass of a new block raises its error only
\* logs it: the same invocation goes on to the resubmission pass of that block, no
\* record changes, and the handler stays registered for the next block
C27_UpdateErrorLoggedOnly ==
    [][\A h \in Passes :
          (/\ passes[h].pc = "update" /\ passes[h].running /\ ~passes[h].startup
           /\ passes'[h] # passes[h]
           /\ logged' = logged + 1)
          => /\ passes'[h].pc = "resubmit"
             /\ passes'[h].block = passes[h].block
             /\ txs' = txs
             /\ latestListeners' = latestListeners
             /\ listenersAreActive' = listenersAreActive]_vars

\* the confirmation pass of block 1 threw and was logged; the resubmission pass of
\* block 1 is running, the record is still submitted, the handler still registered
C27_Witness ==
    /\ logged = 1
    /\ latestBlock = 1
    /\ latestListeners = 1
    /\ \E h \in Passes :
          /\ passes[h].pc = "resubmit" /\ passes[h].running /\ passes[h].block = 1
    /\ \E i \in 1..Len(txs) : txs[i].status = "submitted"
    /\ \A i \in 1..Len(txs) : txs[i].status # "failed"

C23_PromiseSettles ==
    \A k \in Intakes :
        (/\ intake[k].promise
         /\ intake[k].pc \in {"defaults", "listening"}
         /\ txs[intake[k].id].status \in FinishedStatuses)
        ~> (intake[k].pc \notin {"defaults", "listening"})

====
